---------------------------- MODULE Spec2Model ----------------------------
(***************************************************************************)
(* Graph core of Biophysics-KGG-V2: connectivity repair                    *)
(* (connectIsolatedNodes), PageRank centrality (calculateCentrality /      *)
(* analyzeGraph), link curvature (enrichLinksWithCurvature), highlight     *)
(* computation (useNeighborMap / useGraphHighlight), the layouts           *)
(* (applyDagreLayout, applyTreeLayout, applyCircularLayout,                *)
(* applyAutoLayout) and the selection state (useMultiSelection).           *)
(*                                                                         *)
(* Every component is a synchronous function of its inputs.  Each has its  *)
(* own specification (SpecRepair, SpecRank, SpecCurv, SpecHighlight,       *)
(* SpecLayout, SpecSelection) whose Init draws the input graph from a      *)
(* bounded set and whose actions apply the component's code.  SpecSession  *)
(* adds replacements of the graph to the highlight handlers; SpecTraverse  *)
(* runs the traversals of the components step by step, under weak          *)
(* fairness, for their termination.                                        *)
(*                                                                         *)
(* Numbers: JavaScript numbers are modelled as exact rationals.            *)
(*   - PageRank values are integer numerators over the common denominator  *)
(*     rankDen; normalised ranks and sizes are numerators over maxRank.    *)
(*   - curvatures, similarities and link weights are records [num, den].   *)
(*   - tree layout coordinates are integers; circular layout coordinates   *)
(*     stay in polar form (radius, fraction of a turn); the coordinates    *)
(*     computed by the dagre library are opaque values per node.           *)
(***************************************************************************)
EXTENDS Integers, Sequences, FiniteSets, TLC

VARIABLES
    nodes,            \* GraphData.nodes: sequence of node records
    links,            \* GraphData.links: sequence of link records
    pc,               \* position of the running component
    input,            \* argument of the latest call of a component
    repairs,          \* number of connectIsolatedNodes calls so far
    pageRanks,        \* calculateCentrality: pageRanks map (numerators)
    rankDen,          \* common denominator of pageRanks
    iter,             \* calculateCentrality: loop counter i
    useNodes,         \* enrichLinksWithCurvature: is the nodes argument given
    highlightedNode,  \* useGraphHighlight: highlightedNode state (<<>> = null)
    pathwayMode,      \* useGraphHighlight: pathwayMode argument
    highlightState,   \* useGraphHighlight: memoised highlightState
    layoutAlgorithm,  \* UnifiedForceGraph: layoutAlgorithm prop
    layoutCall,       \* the layout function that ran last, with its arguments
    autoStats,        \* applyAutoLayout: avgDegree, hasLoops, isTree (<<>> = not run)
    selectedNodes,    \* useMultiSelection: selectedNodes state (set of ids)
    hoveredNode,      \* useMultiSelection: hoveredNode state (<<>> = null)
    lastSelectedNode, \* useMultiSelection: lastSelectedNode state (<<>> = null)
    traversal         \* the running traversal: its queue or call stack, visited

vars == <<nodes, links, pc, input, repairs, pageRanks, rankDen, iter,
          useNodes, highlightedNode, pathwayMode, highlightState,
          layoutAlgorithm, layoutCall, autoStats,
          selectedNodes, hoveredNode, lastSelectedNode, traversal>>

graphVars == <<nodes, links>>
repairVars == <<input, repairs>>
rankVars == <<pageRanks, rankDen, iter>>
curvVars == <<useNodes>>
highlightVars == <<highlightedNode, pathwayMode, highlightState>>
layoutVars == <<layoutAlgorithm, layoutCall, autoStats>>
selectionVars == <<selectedNodes, hoveredNode, lastSelectedNode>>
traversalVars == <<traversal>>

----------------------------------------------------------------------------
(* Bounds *)

RepairMaxNodes == 3
RepairMaxLinks == 2
MaxRepairs == 2
RankMaxNodes == 3
RankMaxLinks == 2
MaxIter == 2          \* iterations of the PageRank loop that are modelled
CurvMaxNodes == 2
CurvMaxLinks == 3
HlMaxNodes == 4
HlMaxLinks == 2
HlChainNodes == 5     \* nodes of the chain graphs given to useGraphHighlight
LayMaxNodes == 3
LayMaxLinks == 2
StarLeaves == 5       \* leaves of the star graphs given to the layouts
SessMaxNodes == 3
SessMaxLinks == 1
SelMaxNodes == 3
TravMaxNodes == 2
TravMaxLinks == 1

----------------------------------------------------------------------------
(* Generic helpers *)

Range(s) == {s[i] : i \in 1..Len(s)}

SeqsUpTo(S, n) == UNION {[1..k -> S] : k \in 0..n}

Max2(a, b) == IF a >= b THEN a ELSE b

Abs(a) == IF a < 0 THEN -a ELSE a

IdOrder == <<"A", "B", "C", "D", "E", "F">>

FirstIds(n) == {IdOrder[i] : i \in 1..n}

\* an optional value (undefined / defined) is a sequence of length 0 or 1
Undefined == <<>>
Some(v) == <<v>>

----------------------------------------------------------------------------
(* Data model: Node and Link *)

Node(id, group, type, context, x, y) ==
    [id |-> id, group |-> group, type |-> type, context |-> context,
     x |-> x, y |-> y]

Link(source, target, value, type) ==
    [source |-> source, target |-> target, value |-> value, type |-> type]

NodeIds(ns) == {ns[i].id : i \in 1..Len(ns)}

\* nodes.find(n => n.id === id)
RECURSIVE FindFrom(_, _, _)
FindFrom(ns, id, i) ==
    IF i > Len(ns) THEN Undefined
    ELSE IF ns[i].id = id THEN Some(ns[i])
    ELSE FindFrom(ns, id, i + 1)

FindNode(ns, id) == FindFrom(ns, id, 1)

----------------------------------------------------------------------------
(* connectIsolatedNodes (textProcessor.ts) *)

\* Set.add on an insertion-ordered set, kept as a duplicate-free sequence
SetAdd(s, v) == IF v \in Range(s) THEN s ELSE Append(s, v)

\* adjacencyMap.get(a)?.add(b)
AdjAdd(adj, a, b) ==
    IF a \in DOMAIN adj THEN [adj EXCEPT ![a] = SetAdd(@, b)] ELSE adj

RECURSIVE AdjFrom(_, _, _)
AdjFrom(adj, ls, i) ==
    IF i > Len(ls) THEN adj
    ELSE AdjFrom(AdjAdd(AdjAdd(adj, ls[i].source, ls[i].target),
                        ls[i].target, ls[i].source), ls, i + 1)

\* Faulty variant: only the source side of a link is recorded
RECURSIVE AdjFromDirected(_, _, _)
AdjFromDirected(adj, ls, i) ==
    IF i > Len(ls) THEN adj
    ELSE AdjFromDirected(AdjAdd(adj, ls[i].source, ls[i].target), ls, i + 1)

MutAdjacencyMap(ns, ls) ==
    AdjFromDirected([id \in NodeIds(ns) |-> <<>>], ls, 1)

AdjacencyMap(ns, ls) == AdjFrom([id \in NodeIds(ns) |-> <<>>], ls, 1)

AdjGet(adj, id) == IF id \in DOMAIN adj THEN adj[id] ELSE <<>>

\* dfs(nodeId, component); st = [visited: set, component: ordered set]
RECURSIVE Dfs(_, _, _), DfsEach(_, _, _, _)
Dfs(adj, nodeId, st) ==
    DfsEach(adj, AdjGet(adj, nodeId), 1,
            [visited |-> st.visited \cup {nodeId},
             component |-> SetAdd(st.component, nodeId)])

DfsEach(adj, nbrs, i, st) ==
    IF i > Len(nbrs) THEN st
    ELSE DfsEach(adj, nbrs, i + 1,
                 IF nbrs[i] \notin st.visited THEN Dfs(adj, nbrs[i], st)
                 ELSE st)

\* nodes.forEach(node => if (!visited.has(node.id)) {...})
RECURSIVE ComponentsFrom(_, _, _, _, _)
ComponentsFrom(ns, adj, i, visited, components) ==
    IF i > Len(ns) THEN components
    ELSE IF ns[i].id \in visited
         THEN ComponentsFrom(ns, adj, i + 1, visited, components)
         ELSE LET st == Dfs(adj, ns[i].id,
                            [visited |-> visited, component |-> <<>>])
              IN  ComponentsFrom(ns, adj, i + 1, st.visited,
                                 Append(components, st.component))

FindComponents(ns, adj) == ComponentsFrom(ns, adj, 1, {}, <<>>)

\* components.sort((a, b) => b.size - a.size): stable, largest first
InsertBySize(sorted, c) ==
    LET k == Cardinality({j \in 1..Len(sorted) : Len(sorted[j]) >= Len(c)})
    IN  SubSeq(sorted, 1, k) \o <<c>> \o SubSeq(sorted, k + 1, Len(sorted))

\* Faulty variant: smallest first
InsertBySizeAsc(sorted, c) ==
    LET k == Cardinality({j \in 1..Len(sorted) : Len(sorted[j]) <= Len(c)})
    IN  SubSeq(sorted, 1, k) \o <<c>> \o SubSeq(sorted, k + 1, Len(sorted))

RECURSIVE MutSortComponents(_)
MutSortComponents(cs) ==
    IF cs = <<>> THEN <<>>
    ELSE InsertBySizeAsc(MutSortComponents(SubSeq(cs, 1, Len(cs) - 1)),
                         cs[Len(cs)])

RECURSIVE SortComponents(_)
SortComponents(cs) ==
    IF cs = <<>> THEN <<>>
    ELSE InsertBySize(SortComponents(SubSeq(cs, 1, Len(cs) - 1)), cs[Len(cs)])

\* calculateNodeSimilarity: 0.5 [group] + shared/max [context] + 0.3 [type]
\* a context is the set of tokens of context.join(' ').split(/\W+/)
CalculateNodeSimilarity(node1, node2) ==
    LET both == node1.context # Undefined /\ node2.context # Undefined
        words1 == IF both THEN node1.context[1] ELSE {}
        words2 == IF both THEN node2.context[1] ELSE {}
        m == IF both THEN Max2(Cardinality(words1), Cardinality(words2))
             ELSE 1
        shared == Cardinality(words1 \cap words2)
    IN  [num |-> (IF node1.group = node2.group THEN 5 * m ELSE 0)
                 + 10 * shared
                 + (IF node1.type = node2.type THEN 3 * m ELSE 0),
         den |-> 10 * m]

\* Faulty variant: an equally similar later node replaces the best match
MutSimGreater(a, b) == a.num * b.den >= b.num * a.den
SimGreater(a, b) == a.num * b.den > b.num * a.den

\* Faulty variant: the search starts from similarity 0
MutInitialBestMatch == [nodeId |-> "", similarity |-> [num |-> 0, den |-> 1]]

\* bestMatch = { nodeId: '', similarity: -1 }
InitialBestMatch == [nodeId |-> "", similarity |-> [num |-> -1, den |-> 1]]

\* mainComponent.forEach(mainNodeId => {...})
RECURSIVE BestMatchFrom(_, _, _, _, _)
BestMatchFrom(ns, isolatedNode, main, j, best) ==
    IF j > Len(main) THEN best
    ELSE LET mainNode == FindNode(ns, main[j])[1]
             similarity == CalculateNodeSimilarity(isolatedNode, mainNode)
         IN  BestMatchFrom(ns, isolatedNode, main, j + 1,
                 IF SimGreater(similarity, best.similarity)
                 THEN [nodeId |-> main[j], similarity |-> similarity]
                 ELSE best)

\* Array.from(component)[0]
Representative(component) == component[1]

InferredLink(ns, component, main) ==
    LET isolatedNodeId == Representative(component)
        isolatedNode == FindNode(ns, isolatedNodeId)[1]
        bestMatch == BestMatchFrom(ns, isolatedNode, main, 1, InitialBestMatch)
    IN  Link(isolatedNodeId, bestMatch.nodeId, 1, "inferred_relation")

\* for (let i = 1; i < components.length; i++) {... newLinks.push(...)}
RECURSIVE NewLinksFrom(_, _, _, _)
NewLinksFrom(ns, components, i, newLinks) ==
    IF i > Len(components) THEN newLinks
    ELSE NewLinksFrom(ns, components, i + 1,
             Append(newLinks, InferredLink(ns, components[i], components[1])))

ConnectIsolatedNodes(ns, ls) ==
    LET components == FindComponents(ns, AdjacencyMap(ns, ls))
    IN  IF Len(components) <= 1
        THEN [nodes |-> ns, links |-> ls]
        ELSE [nodes |-> ns,
              links |-> NewLinksFrom(ns, SortComponents(components), 2, ls)]

----------------------------------------------------------------------------
(* Input graphs of the repair *)

\* (group, type, context) of an extracted entity
Profiles ==
    { [group |-> 1, type |-> "protein", context |-> Undefined],
      [group |-> 2, type |-> "gene", context |-> Some({"atp"})] }

ProfiledNodes(maxNodes) ==
    UNION { { [i \in 1..n |-> Node(IdOrder[i], p[i].group, p[i].type,
                                   p[i].context, Undefined, Undefined)]
              : p \in [1..n -> Profiles] }
            : n \in 0..maxNodes }

\* entities of one type whose contexts share some of their words
RichProfiles ==
    { [group |-> 1, type |-> "protein", context |-> Some({"atp"})],
      [group |-> 1, type |-> "protein", context |-> Some({"atp", "binding"})],
      [group |-> 2, type |-> "protein",
       context |-> Some({"atp", "binding", "site"})] }

\* exactly n entities with rich profiles
RichNodes(n) ==
    { [i \in 1..n |-> Node(IdOrder[i], p[i].group, p[i].type,
                           p[i].context, Undefined, Undefined)]
      : p \in [1..n -> RichProfiles] }

RawLinks(ns, values) ==
    { Link(s, t, v, "relation") : s \in NodeIds(ns), t \in NodeIds(ns),
                                  v \in values }

NoRanks == <<>>
NoHighlight == [nodes |-> {}, links |-> {}]
NoLayoutCall == [fn |-> "none"]

\* layoutAlgorithm = 'force' is the default of the prop
LayoutIdle ==
    /\ layoutAlgorithm = "force"
    /\ layoutCall = NoLayoutCall
    /\ autoStats = Undefined

\* useState(initialSelection || new Set()), useState(null), useState(null)
SelectionIdle ==
    /\ selectedNodes = {}
    /\ hoveredNode = Undefined
    /\ lastSelectedNode = Undefined

\* no traversal has been started
NoTraversal == [kind |-> "none"]

IdleRest ==
    /\ pageRanks = NoRanks /\ rankDen = 1 /\ iter = 0
    /\ useNodes = FALSE
    /\ highlightedNode = Undefined /\ pathwayMode = FALSE
    /\ highlightState = NoHighlight
    /\ LayoutIdle
    /\ SelectionIdle
    /\ traversal = NoTraversal

\* the entities and relationships of a text: any links over entities of the
\* plain profiles, or one relationship between the first two of
\* RepairMaxNodes entities of the rich profiles
InitRepair ==
    /\ \/ /\ nodes \in ProfiledNodes(RepairMaxNodes)
          /\ links \in SeqsUpTo(RawLinks(nodes, {1}), RepairMaxLinks)
       \/ /\ nodes \in RichNodes(RepairMaxNodes)
          /\ links = <<Link(nodes[1].id, nodes[2].id, 1, "relation")>>
    /\ pc = "extracted"
    /\ input = [nodes |-> <<>>, links |-> <<>>]
    /\ repairs = 0
    /\ IdleRest

\* connectedGraph = connectIsolatedNodes(entities, relationships)
Repair ==
    /\ repairs < MaxRepairs
    /\ LET out == ConnectIsolatedNodes(nodes, links)
       IN  /\ nodes' = out.nodes
           /\ links' = out.links
    /\ input' = [nodes |-> nodes, links |-> links]
    /\ repairs' = repairs + 1
    /\ pc' = "repaired"
    /\ UNCHANGED <<rankVars, curvVars, highlightVars, layoutVars,
                   selectionVars, traversalVars>>

NextRepair == Repair

SpecRepair == InitRepair /\ [][NextRepair]_vars

----------------------------------------------------------------------------
(* analyzeGraph / calculateCentrality (graphAnalytics.ts) *)

\* dampingFactor = 0.85 = DampNum / DampDen
DampNum == 17
DampDen == 20

RECURSIVE Gcd(_, _)
Gcd(a, b) == IF b = 0 THEN a ELSE Gcd(b, a % b)

Lcm(a, b) == (a * b) \div Gcd(a, b)

RECURSIVE SumOver(_, _)
SumOver(f, S) ==
    IF S = {} THEN 0
    ELSE LET e == CHOOSE e \in S : TRUE IN f[e] + SumOver(f, S \ {e})

RECURSIVE LcmOver(_, _)
LcmOver(f, S) ==
    IF S = {} THEN 1
    ELSE LET e == CHOOSE e \in S : TRUE IN Lcm(f[e], LcmOver(f, S \ {e}))

\* Faulty variant: sourceNode.out counts the links instead of adding their values
MutOutWeight(ns, ls) ==
    [id \in NodeIds(ns) |->
        Cardinality({i \in 1..Len(ls) : ls[i].source = id})]

\* nodeMap[id].out: if (sourceNode) sourceNode.out += link.value
OutWeight(ns, ls) ==
    [id \in NodeIds(ns) |->
        SumOver([i \in 1..Len(ls) |-> ls[i].value],
                {i \in 1..Len(ls) : ls[i].source = id})]

\* nodeMap.get(sourceId)?.out || 1
SourceDegree(ns, ls) ==
    LET out == OutWeight(ns, ls)
    IN  [id \in NodeIds(ns) |-> IF out[id] = 0 THEN 1 ELSE out[id]]

\* pageRanks.get(sourceId) || 0
RankOf(ranks, id) == IF id \in DOMAIN ranks THEN ranks[id] ELSE 0

DegreeOf(deg, id) == IF id \in DOMAIN deg THEN deg[id] ELSE 1

\* factor by which one iteration multiplies the common denominator
DenFactor(ns, ls) == DampDen * LcmOver(SourceDegree(ns, ls), NodeIds(ns))

\* pageRanks.set(node.id, 1 / nodes.length), as numerators over Len(ns)
InitialRanks(ns) == [id \in NodeIds(ns) |-> 1]

\* one pass of the loop body: newRank = (1 - d)/N + d * rankSum,
\* as numerators over den * DenFactor(ns, ls)
NewRanks(ns, ls, ranks, den) ==
    LET deg == SourceDegree(ns, ls)
        L == LcmOver(deg, NodeIds(ns))
        share == [i \in 1..Len(ls) |->
                     RankOf(ranks, ls[i].source) * ls[i].value
                         * (L \div DegreeOf(deg, ls[i].source))]
    IN  [id \in NodeIds(ns) |->
            (DampDen - DampNum) * L * (den \div Len(ns))
            + DampNum * SumOver(share, {i \in 1..Len(ls) : ls[i].target = id})]

RECURSIVE MaxOver(_, _)
MaxOver(f, S) ==
    IF S = {} THEN 0
    ELSE LET e == CHOOSE e \in S : TRUE
             m == MaxOver(f, S \ {e})
         IN  IF S = {e} \/ f[e] >= m THEN f[e] ELSE m

RECURSIVE MinOver(_, _)
MinOver(f, S) ==
    IF S = {} THEN 0
    ELSE LET e == CHOOSE e \in S : TRUE
             m == MinOver(f, S \ {e})
         IN  IF S = {e} \/ f[e] <= m THEN f[e] ELSE m

\* Faulty variant: the ranks are divided by the smallest rank
MutMaxRank(ranks) == MinOver(ranks, DOMAIN ranks)

\* Math.max(...Array.from(pageRanks.values()))
MaxRank(ranks) == MaxOver(ranks, DOMAIN ranks)

\* nodes.map(node => ({...node, pageRank: r / maxRank, size: 5 + (r / maxRank) * 25}))
WithCentrality(ns, ranks) ==
    LET maxRank == MaxRank(ranks)
    IN  [i \in 1..Len(ns) |->
            [id |-> ns[i].id, group |-> ns[i].group, type |-> ns[i].type,
             context |-> ns[i].context, x |-> ns[i].x, y |-> ns[i].y,
             pageRank |-> [num |-> RankOf(ranks, ns[i].id), den |-> maxRank],
             size |-> [num |-> 5 * maxRank + RankOf(ranks, ns[i].id) * 25,
                       den |-> maxRank]]]

\* Faulty variant: the weights are stretched over a range of 5
MutCalculateLinkWeights(ls) ==
    LET vals == [i \in 1..Len(ls) |-> ls[i].value]
        maxWeight == MaxOver(vals, 1..Len(ls))
        minWeight == MinOver(vals, 1..Len(ls))
        weightRange == maxWeight - minWeight
    IN  [i \in 1..Len(ls) |->
            [ls[i] EXCEPT !.value =
                IF weightRange > 0
                THEN [num |-> weightRange + (ls[i].value - minWeight) * 5,
                      den |-> weightRange]
                ELSE [num |-> 1, den |-> 1]]]

\* calculateLinkWeights: 1 + ((value - min) / range) * 4, or 1 when range is 0
CalculateLinkWeights(ls) ==
    LET vals == [i \in 1..Len(ls) |-> ls[i].value]
        maxWeight == MaxOver(vals, 1..Len(ls))
        minWeight == MinOver(vals, 1..Len(ls))
        weightRange == maxWeight - minWeight
    IN  [i \in 1..Len(ls) |->
            [ls[i] EXCEPT !.value =
                IF weightRange > 0
                THEN [num |-> weightRange + (ls[i].value - minWeight) * 4,
                      den |-> weightRange]
                ELSE [num |-> 1, den |-> 1]]]

\* detectCommunities: flood fill, communityId++ per unvisited node
DetectCommunities(ns, ls) ==
    LET comps == FindComponents(ns, AdjacencyMap(ns, ls))
    IN  [id \in NodeIds(ns) |->
            (CHOOSE k \in 1..Len(comps) : id \in Range(comps[k])) - 1]

\* group: communities[node.id] || node.group
WithCommunities(ns, communities) ==
    [i \in 1..Len(ns) |->
        [ns[i] EXCEPT !.group =
            IF communities[ns[i].id] # 0 THEN communities[ns[i].id] ELSE @]]

PlainNodes(maxNodes, groups) ==
    UNION { { [i \in 1..n |-> Node(IdOrder[i], g[i], "protein", Undefined,
                                   Undefined, Undefined)]
              : g \in [1..n -> groups] }
            : n \in 0..maxNodes }

\* links that all leave the first node, with three different weights
FanLinks(ns) ==
    IF ns = <<>> THEN {}
    ELSE { Link(ns[1].id, t, v, "relation") : t \in NodeIds(ns), v \in {1, 2, 3} }

InitRank ==
    /\ nodes \in PlainNodes(RankMaxNodes, {1})
    /\ links \in SeqsUpTo(RawLinks(nodes, {1, 2}), RankMaxLinks)
                 \cup SeqsUpTo(FanLinks(nodes), RankMaxLinks + 1)
    /\ pc = "connected"
    /\ input = [nodes |-> <<>>, links |-> <<>>]
    /\ repairs = 0
    /\ IdleRest

\* calculateCentrality up to the loop: degrees and initial ranks
StartCentrality ==
    /\ pc = "connected"
    /\ pageRanks' = InitialRanks(nodes)
    /\ rankDen' = Len(nodes)
    /\ iter' = 0
    /\ input' = [nodes |-> nodes, links |-> links]
    /\ pc' = "ranking"
    /\ UNCHANGED <<graphVars, repairs, curvVars, highlightVars, layoutVars,
                   selectionVars, traversalVars>>

\* for (let i = 0; i < iterations; i++) {... pageRanks = newRanks}
PageRankIterate ==
    /\ pc = "ranking"
    /\ iter < MaxIter
    /\ pageRanks' = NewRanks(nodes, links, pageRanks, rankDen)
    /\ rankDen' = rankDen * DenFactor(nodes, links)
    /\ iter' = iter + 1
    /\ UNCHANGED <<graphVars, pc, repairVars, curvVars, highlightVars, layoutVars,
                   selectionVars, traversalVars>>

\* the rest of analyzeGraph: normalisation, sizes, link weights, communities
FinishAnalyze ==
    /\ pc = "ranking"
    /\ iter = MaxIter
    /\ LET ranked == WithCentrality(nodes, pageRanks)
           weighted == CalculateLinkWeights(links)
       IN  /\ nodes' = WithCommunities(ranked, DetectCommunities(ranked, weighted))
           /\ links' = weighted
    /\ pc' = "analyzed"
    /\ UNCHANGED <<repairVars, rankVars, curvVars, highlightVars, layoutVars,
                   selectionVars, traversalVars>>

NextRank == StartCentrality \/ PageRankIterate \/ FinishAnalyze

SpecRank == InitRank /\ [][NextRank]_vars

----------------------------------------------------------------------------
(* Link curvature (linkCurvature.ts) *)

Rat(n, d) == [num |-> n, den |-> d]

RatEq(a, b) == a.num * b.den = b.num * a.den

RatLess(a, b) ==
    IF a.den * b.den > 0 THEN a.num * b.den < b.num * a.den
    ELSE a.num * b.den > b.num * a.den

\* return 0.5 for a self-link
SelfLinkCurvature == Rat(1, 2)

\* curvatureSpacing = 0.5
CurvatureSpacing == Rat(1, 2)

\* return 0.1 for a straight link near a cardinal direction
CardinalCurvature == Rat(1, 10)

\* tan(5 degrees), rounded to six decimals
Tan5 == Rat(87489, 1000000)

\* Faulty variant: a reversed link is not counted as parallel
MutParallelLinks(ls, i) ==
    {j \in 1..Len(ls) :
        ls[j].source = ls[i].source /\ ls[j].target = ls[i].target}

\* allLinks.filter(l => same source-target pair or reversed), as positions
ParallelLinks(ls, i) ==
    {j \in 1..Len(ls) :
        \/ ls[j].source = ls[i].source /\ ls[j].target = ls[i].target
        \/ ls[j].source = ls[i].target /\ ls[j].target = ls[i].source}

\* Faulty variant: the position in allLinks is used
MutIndexOf(S, i) == i - 1

\* parallelLinks.indexOf(link), 0-based
IndexOf(S, i) == Cardinality({j \in S : j < i})

\* Faulty variant: no self-link branch
MutCalculateLinkCurvature(ls, i) ==
    LET parallelLinks == ParallelLinks(ls, i)
        k == Cardinality(parallelLinks)
    IN  IF k = 1 THEN Rat(0, 1)
        ELSE Rat(CurvatureSpacing.num * (2 * IndexOf(parallelLinks, i) - (k - 1)),
                 CurvatureSpacing.den * 2)

\* calculateLinkCurvature(link, allLinks), link = allLinks[i]
CalculateLinkCurvature(ls, i) ==
    LET parallelLinks == ParallelLinks(ls, i)
        k == Cardinality(parallelLinks)
    IN  IF ls[i].source = ls[i].target THEN SelfLinkCurvature
        ELSE IF k = 1 THEN Rat(0, 1)
        ELSE \* curvatureSpacing * (index - (k - 1) / 2)
             Rat(CurvatureSpacing.num * (2 * IndexOf(parallelLinks, i) - (k - 1)),
                 CurvatureSpacing.den * 2)

\* angleDeg = |atan2(dy, dx)| in degrees, so 0 <= angleDeg <= 180.
\* angleDeg % 90 < 5: angleDeg in [0,5), [90,95) or equal to 180
Mod90Below5(dx, dy) ==
    \/ dx = 0 /\ dy = 0
    \/ dx > 0 /\ Abs(dy) * Tan5.den < Tan5.num * dx
    \/ dx <= 0 /\ dy # 0 /\ (-dx) * Tan5.den < Tan5.num * Abs(dy)
    \/ dx < 0 /\ dy = 0

\* angleDeg % 90 > 85: angleDeg in (85,90) or (175,180)
Mod90Above85(dx, dy) ==
    \/ dx > 0 /\ dx * Tan5.den < Tan5.num * Abs(dy)
    \/ dx < 0 /\ dy # 0 /\ Abs(dy) * Tan5.den < Tan5.num * (-dx)

\* Faulty variant: the "> 85" half of the test is missing
MutIsNearCardinal(dx, dy) == Mod90Below5(dx, dy)

IsNearCardinal(dx, dy) == Mod90Below5(dx, dy) \/ Mod90Above85(dx, dy)

\* calculateAdaptiveCurvature(link, allLinks, allNodes), link = allLinks[i]
CalculateAdaptiveCurvature(ls, i, ns) ==
    LET sourceNode == FindNode(ns, ls[i].source)
        targetNode == FindNode(ns, ls[i].target)
        baseCurvature == CalculateLinkCurvature(ls, i)
    IN  IF sourceNode = Undefined \/ targetNode = Undefined
        THEN CalculateLinkCurvature(ls, i)
        ELSE IF sourceNode[1].id = targetNode[1].id THEN SelfLinkCurvature
        ELSE IF /\ sourceNode[1].x # Undefined /\ targetNode[1].x # Undefined
                /\ sourceNode[1].y # Undefined /\ targetNode[1].y # Undefined
                /\ IsNearCardinal(targetNode[1].x[1] - sourceNode[1].x[1],
                                  targetNode[1].y[1] - sourceNode[1].y[1])
                /\ baseCurvature.num = 0
             THEN CardinalCurvature
             ELSE baseCurvature

\* links.map(link => ({...link, curvature: nodes ? adaptive : plain}))
EnrichLinksWithCurvature(ls, ns, withNodes) ==
    [i \in 1..Len(ls) |->
        [source |-> ls[i].source, target |-> ls[i].target,
         value |-> ls[i].value, type |-> ls[i].type,
         curvature |-> IF withNodes THEN CalculateAdaptiveCurvature(ls, i, ns)
                       ELSE CalculateLinkCurvature(ls, i)]]

\* node positions as a layout or the simulation leaves them
Positions == {<<0, 0>>, <<20, 0>>, <<20, 1>>, <<1, 20>>}

PlacedNode(id, pos) ==
    IF pos = Undefined
    THEN Node(id, 1, "protein", Undefined, Undefined, Undefined)
    ELSE Node(id, 1, "protein", Undefined, Some(pos[1][1]), Some(pos[1][2]))

PlacedNodes(maxNodes) ==
    UNION { { [i \in 1..n |-> PlacedNode(IdOrder[i], p[i])]
              : p \in [1..n -> {Undefined} \cup {Some(q) : q \in Positions}] }
            : n \in 0..maxNodes }

LinksOver(ids, values) ==
    { Link(a, b, v, "relation") : a \in ids, b \in ids, v \in values }

InitCurv ==
    /\ useNodes \in BOOLEAN
    /\ nodes \in IF useNodes THEN PlacedNodes(CurvMaxNodes) ELSE {<<>>}
    /\ links \in SeqsUpTo(LinksOver(FirstIds(CurvMaxNodes), {1}), CurvMaxLinks)
    /\ pc = "layout"
    /\ input = [nodes |-> <<>>, links |-> <<>>]
    /\ repairs = 0
    /\ pageRanks = NoRanks /\ rankDen = 1 /\ iter = 0
    /\ highlightedNode = Undefined /\ pathwayMode = FALSE
    /\ highlightState = NoHighlight
    /\ LayoutIdle
    /\ SelectionIdle
    /\ traversal = NoTraversal

\* enrichedData: links = enrichLinksWithCurvature(layoutData.links, nodes?)
EnrichLinks ==
    /\ pc = "layout"
    /\ input' = [nodes |-> nodes, links |-> links]
    /\ links' = EnrichLinksWithCurvature(links, nodes, useNodes)
    /\ pc' = "enriched"
    /\ UNCHANGED <<nodes, repairs, rankVars, curvVars, highlightVars, layoutVars,
                   selectionVars, traversalVars>>

NextCurv == EnrichLinks

SpecCurv == InitCurv /\ [][NextCurv]_vars

----------------------------------------------------------------------------
(* useNeighborMap and useGraphHighlight (ForceGraph hooks) *)

\* maxDepth: number = 3
DefaultMaxDepth == [maxDepth |-> 3]

\* map.get(a)?.add(b)
NeighborAdd(map, a, b) ==
    IF a \in DOMAIN map THEN [map EXCEPT ![a] = SetAdd(@, b)] ELSE map

\* Faulty variant: a link is entered under its source only
RECURSIVE MutNeighborMapFrom(_, _, _)
MutNeighborMapFrom(map, ls, i) ==
    IF i > Len(ls) THEN map
    ELSE MutNeighborMapFrom(NeighborAdd(map, ls[i].source, ls[i].target),
                            ls, i + 1)

\* data.links.forEach(link => {map.get(a)?.add(b); map.get(b)?.add(a)})
RECURSIVE NeighborMapFrom(_, _, _)
NeighborMapFrom(map, ls, i) ==
    IF i > Len(ls) THEN map
    ELSE NeighborMapFrom(
             NeighborAdd(NeighborAdd(map, ls[i].source, ls[i].target),
                         ls[i].target, ls[i].source), ls, i + 1)

\* useNeighborMap(data)
UseNeighborMap(ns, ls) ==
    NeighborMapFrom([id \in NodeIds(ns) |-> <<>>], ls, 1)

\* neighborMap.get(id) || new Set()
NeighborsOf(map, id) == IF id \in DOMAIN map THEN map[id] ELSE <<>>

\* `link-${index}`
LinkKey(index) == <<"link", index>>

\* neighbors.forEach(neighborId => {if (!visited.has(neighborId)) {...}})
RECURSIVE VisitNeighbors(_, _, _, _)
VisitNeighbors(nbrs, j, depth, st) ==
    IF j > Len(nbrs) THEN st
    ELSE VisitNeighbors(nbrs, j + 1, depth,
             IF nbrs[j] \notin st.visited
             THEN [visited |-> st.visited \cup {nbrs[j]},
                   highlightedNodes |-> st.highlightedNodes \cup {nbrs[j]},
                   queue |-> Append(st.queue, [id |-> nbrs[j], depth |-> depth + 1])]
             ELSE st)

\* Faulty variant: the depth test lets nodes at maxDepth expand
RECURSIVE MutPathwayLoop(_, _, _)
MutPathwayLoop(map, maxDepth, st) ==
    IF st.queue = <<>> THEN st
    ELSE LET current == Head(st.queue)
             rest == [st EXCEPT !.queue = Tail(st.queue)]
         IN  IF current.depth > maxDepth
             THEN MutPathwayLoop(map, maxDepth, rest)
             ELSE MutPathwayLoop(map, maxDepth,
                      VisitNeighbors(NeighborsOf(map, current.id), 1,
                                     current.depth, rest))

\* while (queue.length > 0) {current = queue.shift(); ...}
RECURSIVE PathwayLoop(_, _, _)
PathwayLoop(map, maxDepth, st) ==
    IF st.queue = <<>> THEN st
    ELSE LET current == Head(st.queue)
             rest == [st EXCEPT !.queue = Tail(st.queue)]
         IN  IF current.depth >= maxDepth
             THEN PathwayLoop(map, maxDepth, rest)
             ELSE PathwayLoop(map, maxDepth,
                      VisitNeighbors(NeighborsOf(map, current.id), 1,
                                     current.depth, rest))

PathwayNodes(map, focus, maxDepth) ==
    PathwayLoop(map, maxDepth,
                [visited |-> {focus}, highlightedNodes |-> {focus},
                 queue |-> <<[id |-> focus, depth |-> 0]>>]).highlightedNodes

\* Faulty variant: the pathway branch numbers the links from 1
MutPathwayLinks(ls, highlightedNodes) ==
    {LinkKey(i) : i \in {j \in 1..Len(ls) :
        ls[j].source \in highlightedNodes /\ ls[j].target \in highlightedNodes}}

\* links with both endpoints highlighted; index is 0-based
PathwayLinks(ls, highlightedNodes) ==
    {LinkKey(i - 1) : i \in {j \in 1..Len(ls) :
        ls[j].source \in highlightedNodes /\ ls[j].target \in highlightedNodes}}

\* Faulty variant: only the links leaving the focus are collected
MutDirectLinks(ls, focus) ==
    {LinkKey(i - 1) : i \in {j \in 1..Len(ls) : ls[j].source = focus}}

\* links with the focus as source or target; index is 0-based
DirectLinks(ls, focus) ==
    {LinkKey(i - 1) : i \in {j \in 1..Len(ls) :
        ls[j].source = focus \/ ls[j].target = focus}}

\* Faulty variant: a focus that is not a node of the graph highlights nothing
MutComputeHighlightState(ns, ls, map, focusNode, pathway, maxDepth) ==
    IF focusNode = Undefined \/ focusNode[1] \notin NodeIds(ns)
    THEN [nodes |-> {}, links |-> {}]
    ELSE IF pathway
    THEN LET highlightedNodes == PathwayNodes(map, focusNode[1], maxDepth)
         IN  [nodes |-> highlightedNodes,
              links |-> PathwayLinks(ls, highlightedNodes)]
    ELSE [nodes |-> {focusNode[1]} \cup Range(NeighborsOf(map, focusNode[1])),
          links |-> DirectLinks(ls, focusNode[1])]

\* the useMemo body that computes highlightState
ComputeHighlightState(ns, ls, map, focusNode, pathway, maxDepth) ==
    IF focusNode = Undefined THEN [nodes |-> {}, links |-> {}]
    ELSE IF pathway
    THEN LET highlightedNodes == PathwayNodes(map, focusNode[1], maxDepth)
         IN  [nodes |-> highlightedNodes,
              links |-> PathwayLinks(ls, highlightedNodes)]
    ELSE [nodes |-> {focusNode[1]} \cup Range(NeighborsOf(map, focusNode[1])),
          links |-> DirectLinks(ls, focusNode[1])]

\* Faulty variant: the graph is missing from the dependency list
MutHighlightDeps(ns, ls, focusNode, pathway) == <<focusNode, pathway>>

\* [highlightedNode, data, neighborMap, pathwayMode, maxDepth]; neighborMap
\* is itself memoised on data, maxDepth is never passed
HighlightDeps(ns, ls, focusNode, pathway) == <<focusNode, ns, ls, pathway>>

\* useMemo: the body runs again when a dependency differs from the one of
\* the previous render, otherwise the previous value is returned
UseMemoHighlightState(ns, ls, focusNode, pathway) ==
    IF HighlightDeps(ns, ls, focusNode, pathway)
           = HighlightDeps(nodes, links, highlightedNode, pathwayMode)
    THEN highlightState
    ELSE ComputeHighlightState(ns, ls, UseNeighborMap(ns, ls),
                               focusNode, pathway, DefaultMaxDepth.maxDepth)

\* what a render of UnifiedForceGraph leaves in highlightState
Rendered(focusNode, pathway) ==
    UseMemoHighlightState(nodes, links, focusNode, pathway)

\* handlers.isLinkHighlighted(link): both ends are highlighted nodes
IsLinkHighlighted(link, state) ==
    link.source \in state.nodes /\ link.target \in state.nodes

\* chains n1 - n2 - ... of HlChainNodes nodes: every link in either
\* direction, then at most one further link between any two nodes
ChainLinks(ns) ==
    LET chains == { [i \in 1..(Len(ns) - 1) |->
                        IF fwd[i]
                        THEN Link(ns[i].id, ns[i + 1].id, 1, "relation")
                        ELSE Link(ns[i + 1].id, ns[i].id, 1, "relation")]
                    : fwd \in [1..(Len(ns) - 1) -> BOOLEAN] }
    IN  chains \cup { Append(c, l) : c \in chains, l \in RawLinks(ns, {1}) }

InitHighlight ==
    /\ \/ /\ nodes \in PlainNodes(HlMaxNodes, {1})
          /\ links \in SeqsUpTo(RawLinks(nodes, {1}), HlMaxLinks)
       \/ /\ nodes \in {ns \in PlainNodes(HlChainNodes, {1}) :
                            Len(ns) = HlChainNodes}
          /\ links \in ChainLinks(nodes)
    /\ pc = "interactive"
    /\ input = [nodes |-> <<>>, links |-> <<>>]
    /\ repairs = 0
    /\ IdleRest

\* handlers.setHighlightedNode(node), followed by the re-render
SetHighlightedNode ==
    \E id \in NodeIds(nodes) :
        /\ highlightedNode' = Some(id)
        /\ highlightState' = Rendered(Some(id), pathwayMode)
        /\ UNCHANGED <<graphVars, pc, repairVars, rankVars, curvVars, pathwayMode,
                       layoutVars, selectionVars, traversalVars>>

\* handlers.clearHighlights() / setHighlightedNode(null)
ClearHighlights ==
    /\ highlightedNode' = Undefined
    /\ highlightState' = Rendered(Undefined, pathwayMode)
    /\ UNCHANGED <<graphVars, pc, repairVars, rankVars, curvVars, pathwayMode,
                   layoutVars, selectionVars, traversalVars>>

\* the enablePathwayMode prop changes, followed by the re-render
TogglePathwayMode ==
    /\ pathwayMode' = ~pathwayMode
    /\ highlightState' = Rendered(highlightedNode, ~pathwayMode)
    /\ UNCHANGED <<graphVars, pc, repairVars, rankVars, curvVars, highlightedNode,
                   layoutVars, selectionVars, traversalVars>>

NextHighlight == SetHighlightedNode \/ ClearHighlights \/ TogglePathwayMode

SpecHighlight == InitHighlight /\ [][NextHighlight]_vars

----------------------------------------------------------------------------
(* Layouts (ForceGraph/utils/graphLayouts.ts) and their use by             *)
(* UnifiedForceGraph                                                       *)

\* type LayoutAlgorithm = 'force' | 'dagre' | 'tree' | 'circular' | 'auto'
LayoutAlgorithm == {"force", "dagre", "tree", "circular", "auto"}

\* Faulty variant: the position is set but not pinned
MutWithPosition(node, x, y) == [node EXCEPT !.x = Some(x), !.y = Some(y)]

\* {...node, x, y, fx: x, fy: y}
WithPosition(node, x, y) ==
    [node EXCEPT !.x = Some(x), !.y = Some(y), !.fx = Some(x), !.fy = Some(y)]

\* g.node(node.id) after dagre.layout(g): the coordinates are the library's,
\* kept as the opaque values x(id) and y(id)
DagreNode(id) == [x |-> <<"dagre.x", id>>, y |-> <<"dagre.y", id>>]

\* applyDagreLayout(data): every node was entered with g.setNode, so
\* g.node(node.id) is defined for every node
ApplyDagreLayout(ns, ls) ==
    [nodes |-> [i \in 1..Len(ns) |->
                   WithPosition(ns[i], DagreNode(ns[i].id).x, DagreNode(ns[i].id).y)],
     links |-> ls]

\* orientation = 'vertical', levelSeparation = 100, siblingSeparation = 50
DefaultTreeOptions ==
    [orientation |-> "vertical", levelSeparation |-> 100, siblingSeparation |-> 50]

\* childrenMap.get(sourceId)?.push(targetId), link after link
RECURSIVE ChildrenFrom(_, _, _)
ChildrenFrom(map, ls, i) ==
    IF i > Len(ls) THEN map
    ELSE ChildrenFrom(
             IF ls[i].source \in DOMAIN map
             THEN [map EXCEPT ![ls[i].source] = Append(@, ls[i].target)]
             ELSE map,
             ls, i + 1)

ChildrenMap(ns, ls) == ChildrenFrom([id \in NodeIds(ns) |-> <<>>], ls, 1)

\* the keys of parentMap
ParentMapKeys(ls) == {ls[i].target : i \in 1..Len(ls)}

\* data.nodes.find(node => !parentMap.has(node.id))?.id
RECURSIVE FirstWithoutParent(_, _, _)
FirstWithoutParent(ns, ls, i) ==
    IF i > Len(ns) THEN Undefined
    ELSE IF ns[i].id \notin ParentMapKeys(ls) THEN Some(ns[i].id)
    ELSE FirstWithoutParent(ns, ls, i + 1)

\* root = rootNodeId, else the first node without parent, else data.nodes[0]?.id
TreeRoot(ns, ls, rootNodeId) ==
    IF rootNodeId # Undefined THEN rootNodeId
    ELSE IF FirstWithoutParent(ns, ls, 1) # Undefined
    THEN FirstWithoutParent(ns, ls, 1)
    ELSE IF ns # <<>> THEN Some(ns[1].id) ELSE Undefined

\* childrenMap.get(current.id) || []   (current.id may be undefined)
ChildrenOf(children, id) ==
    IF id # Undefined /\ id[1] \in DOMAIN children THEN children[id[1]] ELSE <<>>

\* children.forEach(childId => queue.push({id: childId, level: level + 1}))
PushChildren(queue, kids, level) ==
    queue \o [j \in 1..Len(kids) |-> [id |-> Some(kids[j]), level |-> level + 1]]

\* map.set(level, (map.get(level) || 0) + 1)
CountLevel(map, level) ==
    IF level \in DOMAIN map THEN [map EXCEPT ![level] = @ + 1]
    ELSE [l \in DOMAIN map \cup {level} |-> IF l = level THEN 1 ELSE map[l]]

\* first pass: calculate level widths
RECURSIVE TreeLevelWidths(_, _)
TreeLevelWidths(children, st) ==
    IF st.queue = <<>> THEN st.levelWidths
    ELSE LET current == Head(st.queue)
         IN  IF current.id \in st.visited
             THEN TreeLevelWidths(children, [st EXCEPT !.queue = Tail(@)])
             ELSE TreeLevelWidths(children,
                      [queue |-> PushChildren(Tail(st.queue),
                                     ChildrenOf(children, current.id), current.level),
                       visited |-> st.visited \cup {current.id},
                       levelWidths |-> CountLevel(st.levelWidths, current.level)])

\* Faulty variant: the level is not centred on the root's column
MutSiblingOffset(positionInLevel, levelCount, siblingSeparation) ==
    positionInLevel * siblingSeparation

\* (positionInLevel - (levelCount - 1) / 2) * siblingSeparation; the
\* separations given to the layout are even, so the product is an integer
SiblingOffset(positionInLevel, levelCount, siblingSeparation) ==
    ((2 * positionInLevel - (levelCount - 1)) * siblingSeparation) \div 2

\* second pass: assign positions
RECURSIVE TreePositions(_, _, _, _)
TreePositions(children, levelWidths, options, st) ==
    IF st.queue = <<>> THEN st.positions
    ELSE LET current == Head(st.queue)
         IN  IF current.id \in st.visited
             THEN TreePositions(children, levelWidths, options,
                                [st EXCEPT !.queue = Tail(@)])
             ELSE LET levelCount ==
                          IF current.level \in DOMAIN levelWidths
                          THEN levelWidths[current.level] ELSE 1
                      positionInLevel ==
                          IF current.level \in DOMAIN st.levelCounters
                          THEN st.levelCounters[current.level] ELSE 0
                      across == SiblingOffset(positionInLevel, levelCount,
                                              options.siblingSeparation)
                      along == current.level * options.levelSeparation
                      pos == IF options.orientation = "vertical"
                             THEN [x |-> across, y |-> along]
                             ELSE [x |-> along, y |-> across]
                  IN  TreePositions(children, levelWidths, options,
                          [queue |-> PushChildren(Tail(st.queue),
                                         ChildrenOf(children, current.id),
                                         current.level),
                           visited |-> st.visited \cup {current.id},
                           levelCounters |->
                               CountLevel(st.levelCounters, current.level),
                           positions |->
                               [id \in DOMAIN st.positions \cup {current.id} |->
                                   IF id = current.id THEN pos
                                   ELSE st.positions[id]]])

\* applyTreeLayout(data, rootNodeId, options)
ApplyTreeLayout(ns, ls, rootNodeId, options) ==
    LET children == ChildrenMap(ns, ls)
        root == TreeRoot(ns, ls, rootNodeId)
        start == <<[id |-> root, level |-> 0]>>
        levelWidths ==
            TreeLevelWidths(children,
                [queue |-> start, visited |-> {}, levelWidths |-> <<>>])
        positions ==
            TreePositions(children, levelWidths, options,
                [queue |-> start, visited |-> {}, levelCounters |-> <<>>,
                 positions |-> <<>>])
    IN  [nodes |-> [i \in 1..Len(ns) |->
                       LET pos == IF Some(ns[i].id) \in DOMAIN positions
                                  THEN positions[Some(ns[i].id)]
                                  ELSE [x |-> 0, y |-> 0]
                       IN  WithPosition(ns[i], pos.x, pos.y)],
         links |-> ls]

\* autoRadius = radius || Math.max(200, nodeCount * 10)
AutoRadius(radius, nodeCount) ==
    IF radius # Undefined /\ radius[1] # 0 THEN radius[1]
    ELSE Max2(200, nodeCount * 10)

\* autoRadius * cos / sin of the angle 2 * PI * index / nodeCount: the point
\* is kept in polar form, the angle as the fraction index / nodeCount of a turn
PolarX(autoRadius, index, nodeCount) ==
    [radius |-> autoRadius, cosOfTurn |-> Rat(index, nodeCount)]

PolarY(autoRadius, index, nodeCount) ==
    [radius |-> autoRadius, sinOfTurn |-> Rat(index, nodeCount)]

\* applyCircularLayout(data, radius); index is 0-based
ApplyCircularLayout(ns, ls, radius) ==
    LET nodeCount == Len(ns)
        autoRadius == AutoRadius(radius, nodeCount)
    IN  [nodes |-> [i \in 1..Len(ns) |->
                       WithPosition(ns[i], PolarX(autoRadius, i - 1, nodeCount),
                                    PolarY(autoRadius, i - 1, nodeCount))],
         links |-> ls]

\* thresholds of applyAutoLayout: avgDegree < 3, links.length > 10,
\* nodes.length < 50
AvgDegreeLimit == 3
DagreMinLinks == 10
CircularMaxNodes == 50

\* Faulty variant: the links are counted at their source
MutParentCount(ns, ls) ==
    [id \in NodeIds(ns) \cup {ls[i].source : i \in 1..Len(ls)} |->
        Cardinality({i \in 1..Len(ls) : ls[i].source = id})]

\* parentCount: 0 for every node, plus one per link for the link's target
ParentCount(ns, ls) ==
    [id \in NodeIds(ns) \cup {ls[i].target : i \in 1..Len(ls)} |->
        Cardinality({i \in 1..Len(ls) : ls[i].target = id})]

\* avgDegree (the quotient is kept as it is written, also over 0 nodes),
\* hasLoops and isTree of applyAutoLayout
AutoStats(ns, ls) ==
    [avgDegree |-> Rat(Len(ls) * 2, Len(ns)),
     hasLoops |-> \E i \in 1..Len(ls) : ls[i].source = ls[i].target,
     isTree |-> \A id \in DOMAIN ParentCount(ns, ls) :
                    ParentCount(ns, ls)[id] <= 1]

\* Faulty variant: the circular branch does not look at hasLoops
MutAutoChoice(ns, ls) ==
    LET st == AutoStats(ns, ls)
    IN  IF st.isTree /\ ~st.hasLoops THEN "tree"
        ELSE IF st.avgDegree.den # 0
                /\ RatLess(st.avgDegree, Rat(AvgDegreeLimit, 1))
                /\ Len(ls) > DagreMinLinks THEN "dagre"
        ELSE IF Len(ns) < CircularMaxNodes THEN "circular"
        ELSE "force"

\* the branch taken by applyAutoLayout; a quotient over 0 is NaN or
\* Infinity, for which avgDegree < 3 is false
AutoChoice(ns, ls) ==
    LET st == AutoStats(ns, ls)
    IN  IF st.isTree /\ ~st.hasLoops THEN "tree"
        ELSE IF st.avgDegree.den # 0
                /\ RatLess(st.avgDegree, Rat(AvgDegreeLimit, 1))
                /\ Len(ls) > DagreMinLinks THEN "dagre"
        ELSE IF Len(ns) < CircularMaxNodes /\ ~st.hasLoops THEN "circular"
        ELSE "force"

\* applyAutoLayout(data)
ApplyAutoLayout(ns, ls) ==
    CASE AutoChoice(ns, ls) = "tree" ->
             ApplyTreeLayout(ns, ls, Undefined, DefaultTreeOptions)
      [] AutoChoice(ns, ls) = "dagre" -> ApplyDagreLayout(ns, ls)
      [] AutoChoice(ns, ls) = "circular" -> ApplyCircularLayout(ns, ls, Undefined)
      [] OTHER -> [nodes |-> ns, links |-> ls]

\* the call of a layout function as recorded in layoutCall
TreeCall(rootNodeId, options) ==
    [fn |-> "tree", rootNodeId |-> rootNodeId, options |-> options]

CircularCall(radius) == [fn |-> "circular", radius |-> radius]

DagreCall == [fn |-> "dagre"]

AutoCall(ns, ls) ==
    CASE AutoChoice(ns, ls) = "tree" -> TreeCall(Undefined, DefaultTreeOptions)
      [] AutoChoice(ns, ls) = "dagre" -> DagreCall
      [] AutoChoice(ns, ls) = "circular" -> CircularCall(Undefined)
      [] OTHER -> [fn |-> "force"]

\* layoutData of UnifiedForceGraph: only 'dagre' and 'auto' have a branch
LayoutData(algorithm, ns, ls) ==
    IF algorithm = "dagre" THEN ApplyDagreLayout(ns, ls)
    ELSE IF algorithm = "auto" THEN ApplyAutoLayout(ns, ls)
    ELSE [nodes |-> ns, links |-> ls]

----------------------------------------------------------------------------
(* Input graphs and calls of the layouts *)

LayoutId(i) == IF i <= Len(IdOrder) THEN IdOrder[i] ELSE "n" \o ToString(i)

\* a node as the analytics hand it over: no position, nothing pinned
LayoutNode(id) ==
    [id |-> id, group |-> 1, type |-> "protein", context |-> Undefined,
     x |-> Undefined, y |-> Undefined, fx |-> Undefined, fy |-> Undefined]

LayoutNodes(n) == [i \in 1..n |-> LayoutNode(LayoutId(i))]

Graph(ns, ls) == [nodes |-> ns, links |-> ls]

\* every graph of at most LayMaxNodes nodes and LayMaxLinks links
SmallGraphs ==
    UNION { { Graph(LayoutNodes(n), ls) :
                ls \in SeqsUpTo(RawLinks(LayoutNodes(n), {1}), LayMaxLinks) }
            : n \in 0..LayMaxNodes }

\* stars of StarLeaves leaves: the centre is the first or the last node, one
\* link per leaf, each link leaving the centre or entering it
StarGraphs ==
    { Graph(LayoutNodes(StarLeaves + 1),
            [k \in 1..StarLeaves |->
                LET leaf == LayoutId(IF k < centre THEN k ELSE k + 1)
                IN  IF out[k] THEN Link(LayoutId(centre), leaf, 1, "relation")
                    ELSE Link(leaf, LayoutId(centre), 1, "relation")])
      : centre \in {1, StarLeaves + 1}, out \in [1..StarLeaves -> BOOLEAN] }

\* the smallest node count whose average degree stays below the limit with
\* DagreMinLinks + 1 links
RingNodes == (2 * (DagreMinLinks + 1)) \div AvgDegreeLimit + 1

\* links laid around a ring of n nodes, lap after lap; with a loop the last
\* link joins the first node to itself
RingGraphs ==
    { Graph(LayoutNodes(n),
            [k \in 1..len |->
                IF loop /\ k = len
                THEN Link(LayoutId(1), LayoutId(1), 1, "relation")
                ELSE Link(LayoutId(((k - 1) % n) + 1), LayoutId((k % n) + 1),
                          1, "relation")])
      : n \in {RingNodes - 1, RingNodes},
        len \in DagreMinLinks..(DagreMinLinks + 2),
        loop \in BOOLEAN }

\* many nodes and two parallel links
SparseGraphs ==
    { Graph(LayoutNodes(n),
            << Link(LayoutId(1), LayoutId(2), 1, "relation"),
               Link(LayoutId(1), LayoutId(2), 1, "relation") >>)
      : n \in {CircularMaxNodes - 1, CircularMaxNodes} }

InitLayout ==
    /\ \E g \in SmallGraphs \cup StarGraphs \cup RingGraphs \cup SparseGraphs :
           nodes = g.nodes /\ links = g.links
    /\ pc = "data"
    /\ input = Graph(<<>>, <<>>)
    /\ repairs = 0
    /\ IdleRest

\* options given to applyTreeLayout
TreeOptionChoices ==
    { DefaultTreeOptions,
      [DefaultTreeOptions EXCEPT !.orientation = "horizontal"],
      [orientation |-> "vertical", levelSeparation |-> 80, siblingSeparation |-> 20] }

\* a render of UnifiedForceGraph with the layoutAlgorithm prop set
RenderLayout ==
    /\ pc = "data"
    /\ \E algorithm \in LayoutAlgorithm :
        /\ layoutAlgorithm' = algorithm
        /\ nodes' = LayoutData(algorithm, nodes, links).nodes
        /\ links' = LayoutData(algorithm, nodes, links).links
        /\ layoutCall' = CASE algorithm = "dagre" -> DagreCall
                           [] algorithm = "auto" -> AutoCall(nodes, links)
                           [] OTHER -> NoLayoutCall
        /\ autoStats' = IF algorithm = "auto" THEN Some(AutoStats(nodes, links))
                        ELSE Undefined
    /\ input' = Graph(nodes, links)
    /\ pc' = "rendered"
    /\ UNCHANGED <<repairs, rankVars, curvVars, highlightVars, selectionVars,
                   traversalVars>>

\* applyDagreLayout(data)
CallDagreLayout ==
    /\ pc = "data"
    /\ nodes' = ApplyDagreLayout(nodes, links).nodes
    /\ links' = ApplyDagreLayout(nodes, links).links
    /\ layoutCall' = DagreCall
    /\ input' = Graph(nodes, links)
    /\ pc' = "laidOut"
    /\ UNCHANGED <<repairs, rankVars, curvVars, highlightVars,
                   layoutAlgorithm, autoStats, selectionVars, traversalVars>>

\* applyTreeLayout(data, rootNodeId, options)
CallTreeLayout ==
    /\ pc = "data"
    /\ \E rootNodeId \in {Undefined} \cup {Some(id) : id \in NodeIds(nodes)},
          options \in TreeOptionChoices :
        /\ nodes' = ApplyTreeLayout(nodes, links, rootNodeId, options).nodes
        /\ links' = ApplyTreeLayout(nodes, links, rootNodeId, options).links
        /\ layoutCall' = TreeCall(rootNodeId, options)
    /\ input' = Graph(nodes, links)
    /\ pc' = "laidOut"
    /\ UNCHANGED <<repairs, rankVars, curvVars, highlightVars,
                   layoutAlgorithm, autoStats, selectionVars, traversalVars>>

\* applyCircularLayout(data, radius)
CallCircularLayout ==
    /\ pc = "data"
    /\ \E radius \in {Undefined, Some(0), Some(100)} :
        /\ nodes' = ApplyCircularLayout(nodes, links, radius).nodes
        /\ links' = ApplyCircularLayout(nodes, links, radius).links
        /\ layoutCall' = CircularCall(radius)
    /\ input' = Graph(nodes, links)
    /\ pc' = "laidOut"
    /\ UNCHANGED <<repairs, rankVars, curvVars, highlightVars,
                   layoutAlgorithm, autoStats, selectionVars, traversalVars>>

\* applyAutoLayout(data)
CallAutoLayout ==
    /\ pc = "data"
    /\ nodes' = ApplyAutoLayout(nodes, links).nodes
    /\ links' = ApplyAutoLayout(nodes, links).links
    /\ layoutCall' = AutoCall(nodes, links)
    /\ autoStats' = Some(AutoStats(nodes, links))
    /\ input' = Graph(nodes, links)
    /\ pc' = "laidOut"
    /\ UNCHANGED <<repairs, rankVars, curvVars, highlightVars, layoutAlgorithm,
                   selectionVars, traversalVars>>

NextLayout ==
    \/ RenderLayout
    \/ CallDagreLayout
    \/ CallTreeLayout
    \/ CallCircularLayout
    \/ CallAutoLayout

SpecLayout == InitLayout /\ [][NextLayout]_vars

----------------------------------------------------------------------------
(* A session of UnifiedForceGraph: hover events, pathway-mode changes and  *)
(* replacements of the data prop                                           *)

\* every graph of at most SessMaxNodes nodes and SessMaxLinks links
SessionGraphs ==
    UNION { { Graph(ns, ls) :
                ls \in SeqsUpTo(RawLinks(ns, {1}), SessMaxLinks) }
            : ns \in PlainNodes(SessMaxNodes, {1}) }

InitSession ==
    /\ \E g \in SessionGraphs : nodes = g.nodes /\ links = g.links
    /\ pc = "interactive"
    /\ input = Graph(<<>>, <<>>)
    /\ repairs = 0
    /\ IdleRest

\* the parent passes a new data prop; highlightedNode is React state of the
\* hook and survives, highlightState is memoised on the new data
ReplaceGraph ==
    /\ \E g \in SessionGraphs :
        /\ Graph(nodes, links) # g
        /\ nodes' = g.nodes
        /\ links' = g.links
        /\ highlightState' =
               UseMemoHighlightState(g.nodes, g.links, highlightedNode, pathwayMode)
    /\ pc' = "replaced"
    /\ UNCHANGED <<repairVars, rankVars, curvVars, highlightedNode,
                   pathwayMode, layoutVars, selectionVars, traversalVars>>

NextSession ==
    \/ SetHighlightedNode
    \/ ClearHighlights
    \/ TogglePathwayMode
    \/ ReplaceGraph

SpecSession == InitSession /\ [][NextSession]_vars

-----------------------------------------------------------------------------
(* useMultiSelection: the selection state of the graph component and the   *)
(* handlers the component takes from the hook                              *)

\* the modifier keys of a MouseEvent that handleNodeSelect reads
MouseEvents ==
    [ctrlKey : BOOLEAN, metaKey : BOOLEAN, shiftKey : BOOLEAN, altKey : BOOLEAN]

IsMultiSelectKey(event) ==
    event.ctrlKey \/ event.metaKey \/ event.shiftKey \/ event.altKey

\* setSelectedNodes(prev => ...): toggle node.id in a copy of prev
ToggleSelected(prev, id) ==
    IF id \in prev THEN prev \ {id} ELSE prev \cup {id}

\* Faulty variant: the size of the selection is not looked at
MutWasOnlySelection(selected, id) == id \in selected
WasOnlySelection(selected, id) ==
    id \in selected /\ Cardinality(selected) = 1

\* The state updates of one handleNodeSelect call, applied in call order:
\* the branch's updates first, the closing setLastSelectedNode(node) last
HandleNodeSelectUpdates(selected, lastSelected, node, event) ==
    LET branch ==
            IF IsMultiSelectKey(event)
            THEN [selectedNodes |-> ToggleSelected(selected, node.id),
                  lastSelectedNode |-> lastSelected]
            ELSE IF WasOnlySelection(selected, node.id)
                 THEN [selectedNodes |-> {}, lastSelectedNode |-> Undefined]
                 ELSE [selectedNodes |-> {node.id},
                       lastSelectedNode |-> Some(node)]
    IN  [branch EXCEPT !.lastSelectedNode = Some(node)]

\* every node sequence of at most SelMaxNodes nodes; the graph has no links
InitSelection ==
    /\ nodes \in PlainNodes(SelMaxNodes, {1})
    /\ links = <<>>
    /\ pc = "interactive"
    /\ input = Graph(<<>>, <<>>)
    /\ repairs = 0
    /\ IdleRest

\* handleNodeSelect(node, event), on a click on a node of the graph
HandleNodeSelect ==
    /\ \E i \in 1..Len(nodes), event \in MouseEvents :
        LET next == HandleNodeSelectUpdates(selectedNodes, lastSelectedNode,
                                            nodes[i], event)
        IN  /\ selectedNodes' = next.selectedNodes
            /\ lastSelectedNode' = next.lastSelectedNode
            /\ input' = [node |-> nodes[i], event |-> event]
    /\ pc' = "handleNodeSelect"
    /\ UNCHANGED <<graphVars, repairs, rankVars, curvVars, highlightVars,
                   layoutVars, hoveredNode, traversalVars>>

\* handleNodeHover(node), node or null
HandleNodeHover ==
    /\ \E node \in {Undefined} \cup {Some(nodes[i]) : i \in 1..Len(nodes)} :
        /\ hoveredNode' = node
        /\ input' = [node |-> node]
    /\ pc' = "handleNodeHover"
    /\ UNCHANGED <<graphVars, repairs, rankVars, curvVars, highlightVars,
                   layoutVars, selectedNodes, lastSelectedNode,
                   traversalVars>>

\* clearSelection()
ClearSelection ==
    /\ selectedNodes' = {}
    /\ lastSelectedNode' = Undefined
    /\ pc' = "clearSelection"
    /\ input' = Graph(<<>>, <<>>)
    /\ UNCHANGED <<graphVars, repairs, rankVars, curvVars, highlightVars,
                   layoutVars, hoveredNode, traversalVars>>

NextSelection == HandleNodeSelect \/ HandleNodeHover \/ ClearSelection

SpecSelection == InitSelection /\ [][NextSelection]_vars

-----------------------------------------------------------------------------
(* The traversals step by step: one step per call, return or loop           *)
(* iteration, so that a traversal that never ends is a behaviour that never *)
(* reaches done                                                             *)

\* every graph of at most TravMaxNodes nodes and TravMaxLinks links
TravGraphs ==
    UNION { { Graph(LayoutNodes(n), ls) :
                ls \in SeqsUpTo(RawLinks(LayoutNodes(n), {1}), TravMaxLinks) }
            : n \in 0..TravMaxNodes }

\* a directed cycle through n nodes, its first link doubled and a link from
\* the last node to itself
KnotGraphs ==
    { Graph(LayoutNodes(n),
            [k \in 1..n |-> Link(LayoutId(k), LayoutId((k % n) + 1), 1, "relation")]
            \o << Link(LayoutId(1), LayoutId((1 % n) + 1), 1, "relation"),
                  Link(LayoutId(n), LayoutId(n), 1, "relation") >>)
      : n \in 1..(TravMaxNodes + 1) }

InitTraverse ==
    /\ \E g \in TravGraphs \cup KnotGraphs : nodes = g.nodes /\ links = g.links
    /\ pc = "graph"
    /\ input = Graph(<<>>, <<>>)
    /\ repairs = 0
    /\ IdleRest

\* Faulty variant: the head of the queue is read but left in the queue
MutShift(queue) == queue

\* queue.shift(): the queue without its head
Shift(queue) == Tail(queue)

\* the frame of a call dfs(nodeId, ..) or assignCommunity(nodeId, ..): the
\* node and the neighbours its forEach has still to look at
CallFrame(adj, nodeId) == [node |-> nodeId, rest |-> AdjGet(adj, nodeId)]

\* the nodes.forEach loop with its recursive calls is about to start
StartRecursive(kind) ==
    /\ traversal = NoTraversal
    /\ traversal' = [kind |-> kind, done |-> FALSE, i |-> 1, stack |-> <<>>,
                     visited |-> {}]
    /\ UNCHANGED <<graphVars, pc, repairVars, rankVars, curvVars, highlightVars,
                   layoutVars, selectionVars>>

\* one step of the loop or of the innermost call: with no call running the
\* loop looks at its next node and calls on an unvisited one; a running call
\* looks at its next neighbour and calls on an unvisited one, or returns when
\* it has none left; the node is marked visited on entry of the call
RecursiveStep(kind) ==
    /\ traversal.kind = kind
    /\ ~traversal.done
    /\ LET adj == AdjacencyMap(nodes, links)
           t == traversal
           depth == Len(t.stack)
       IN  traversal' =
               IF depth = 0
               THEN IF t.i > Len(nodes) THEN [t EXCEPT !.done = TRUE]
                    ELSE IF nodes[t.i].id \in t.visited
                    THEN [t EXCEPT !.i = @ + 1]
                    ELSE [t EXCEPT !.i = @ + 1,
                                   !.visited = @ \cup {nodes[t.i].id},
                                   !.stack = <<CallFrame(adj, nodes[t.i].id)>>]
               ELSE IF t.stack[depth].rest = <<>>
               THEN [t EXCEPT !.stack = SubSeq(@, 1, depth - 1)]
               ELSE LET neighbor == Head(t.stack[depth].rest)
                        looked == [t.stack EXCEPT ![depth].rest = Tail(@)]
                    IN  IF neighbor \in t.visited
                        THEN [t EXCEPT !.stack = looked]
                        ELSE [t EXCEPT !.visited = @ \cup {neighbor},
                                       !.stack = Append(looked,
                                                        CallFrame(adj, neighbor))]
    /\ UNCHANGED <<graphVars, pc, repairVars, rankVars, curvVars, highlightVars,
                   layoutVars, selectionVars>>

\* connectIsolatedNodes: nodes.forEach(node => {... dfs(node.id, component)})
StartDfs == StartRecursive("dfs")

DfsStep == RecursiveStep("dfs")

\* detectCommunities: nodes.forEach(node => {... assignCommunity(node.id, ..)})
StartAssignCommunity == StartRecursive("assignCommunity")

AssignCommunityStep == RecursiveStep("assignCommunity")

\* useGraphHighlight in pathway mode: visited and queue hold the focus
StartPathway ==
    /\ traversal = NoTraversal
    /\ \E focus \in NodeIds(nodes) :
           traversal' = [kind |-> "pathway", done |-> FALSE,
                         visited |-> {focus}, highlightedNodes |-> {focus},
                         queue |-> <<[id |-> focus, depth |-> 0]>>]
    /\ UNCHANGED <<graphVars, pc, repairVars, rankVars, curvVars, highlightVars,
                   layoutVars, selectionVars>>

\* one iteration of while (queue.length > 0) of the pathway traversal
PathwayStep ==
    /\ traversal.kind = "pathway"
    /\ ~traversal.done
    /\ LET t == traversal
       IN  traversal' =
               IF t.queue = <<>> THEN [t EXCEPT !.done = TRUE]
               ELSE LET current == Head(t.queue)
                        rest == [visited |-> t.visited,
                                 highlightedNodes |-> t.highlightedNodes,
                                 queue |-> Shift(t.queue)]
                        next == IF current.depth >= DefaultMaxDepth.maxDepth
                                THEN rest
                                ELSE VisitNeighbors(
                                         NeighborsOf(UseNeighborMap(nodes, links),
                                                     current.id),
                                         1, current.depth, rest)
                    IN  [t EXCEPT !.visited = next.visited,
                                  !.highlightedNodes = next.highlightedNodes,
                                  !.queue = next.queue]
    /\ UNCHANGED <<graphVars, pc, repairVars, rankVars, curvVars, highlightVars,
                   layoutVars, selectionVars>>

\* applyTreeLayout: the queue of the first pass holds the root
StartTree ==
    /\ traversal = NoTraversal
    /\ \E rootNodeId \in {Undefined} \cup {Some(id) : id \in NodeIds(nodes)} :
           LET root == TreeRoot(nodes, links, rootNodeId)
           IN  traversal' = [kind |-> "treeWidths", done |-> FALSE, root |-> root,
                             visited |-> {},
                             queue |-> <<[id |-> root, level |-> 0]>>]
    /\ UNCHANGED <<graphVars, pc, repairVars, rankVars, curvVars, highlightVars,
                   layoutVars, selectionVars>>

\* one iteration of while (queue.length > 0) of a pass of applyTreeLayout;
\* after the loop, `after` is the state the code goes on with
TreePassStep(kind, after) ==
    /\ traversal.kind = kind
    /\ ~traversal.done
    /\ LET t == traversal
       IN  traversal' =
               IF t.queue = <<>> THEN after
               ELSE LET current == Head(t.queue)
                    IN  IF current.id \in t.visited
                        THEN [t EXCEPT !.queue = Shift(@)]
                        ELSE [t EXCEPT
                                 !.visited = @ \cup {current.id},
                                 !.queue = PushChildren(
                                               Shift(@),
                                               ChildrenOf(ChildrenMap(nodes, links),
                                                          current.id),
                                               current.level)]
    /\ UNCHANGED <<graphVars, pc, repairVars, rankVars, curvVars, highlightVars,
                   layoutVars, selectionVars>>

\* first pass; then visited.clear() and queue.push({id: root, level: 0})
TreeWidthsStep ==
    TreePassStep("treeWidths",
                 [traversal EXCEPT !.kind = "treePositions", !.visited = {},
                                   !.queue = <<[id |-> traversal.root,
                                                level |-> 0]>>])

\* second pass; then the positions are applied and the layout returns
TreePositionsStep ==
    TreePassStep("treePositions", [traversal EXCEPT !.done = TRUE])

NextTraverse ==
    \/ StartDfs \/ DfsStep
    \/ StartAssignCommunity \/ AssignCommunityStep
    \/ StartPathway \/ PathwayStep
    \/ StartTree \/ TreeWidthsStep \/ TreePositionsStep

\* the code runs to completion on one thread: a traversal that can take a
\* step takes it
SpecTraverse == InitTraverse /\ [][NextTraverse]_vars /\ WF_vars(NextTraverse)

----------------------------------------------------------------------------
(* Undirected connectivity, stated independently of the repair's traversal *)

Touches(l, S) == l.source \in S \/ l.target \in S

RECURSIVE Closure(_, _)
Closure(S, ls) ==
    LET T == S \cup {ls[i].source : i \in {j \in 1..Len(ls) : Touches(ls[j], S)}}
               \cup {ls[i].target : i \in {j \in 1..Len(ls) : Touches(ls[j], S)}}
    IN  IF T = S THEN S ELSE Closure(T, ls)

ComponentOf(id, ls) == Closure({id}, ls)

ComponentSets(ns, ls) == {ComponentOf(id, ls) : id \in NodeIds(ns)}

LinksValid(ns, ls) ==
    \A i \in 1..Len(ls) : ls[i].source \in NodeIds(ns) /\ ls[i].target \in NodeIds(ns)

\* position in the node sequence of the first member of component K
FirstIndex(ns, K) ==
    CHOOSE i \in 1..Len(ns) :
        ns[i].id \in K /\ \A j \in 1..(i - 1) : ns[j].id \notin K

\* the largest component, the first discovered among the largest ones
MainComponent(ns, ls) ==
    LET comps == ComponentSets(ns, ls)
    IN  CHOOSE K \in comps :
            \A K2 \in comps :
                \/ Cardinality(K) > Cardinality(K2)
                \/ /\ Cardinality(K) = Cardinality(K2)
                   /\ FirstIndex(ns, K) <= FirstIndex(ns, K2)

InputComponents == ComponentSets(input.nodes, input.links)

NewLinkIndexes == (Len(input.links) + 1)..Len(links)

----------------------------------------------------------------------------
(* Claims about connectIsolatedNodes *)

\* C1: for a graph whose links all reference existing node ids, the graph
\* returned by connectIsolatedNodes is a single undirected connected
\* component; for zero nodes the input is returned as is.
C1_OutputConnected ==
    (repairs >= 1 /\ LinksValid(input.nodes, input.links)) =>
        IF Len(input.nodes) = 0
        THEN nodes = input.nodes /\ links = input.links
        ELSE Cardinality(ComponentSets(nodes, links)) = 1

C1_Witness ==
    /\ repairs = 1
    /\ Cardinality(InputComponents) >= 3
    /\ Cardinality(ComponentSets(nodes, links)) = 1

\* C2: connectIsolatedNodes is idempotent: applied to its own output it
\* returns the same link sequence, with no further inferred link.
C2_Idempotent ==
    repairs >= 2 => (links = input.links /\ nodes = input.nodes)

C2_Witness ==
    /\ repairs = 2
    /\ links = input.links
    /\ \E i \in 1..Len(links) : links[i].type = "inferred_relation"

----------------------------------------------------------------------------
(* Claims about calculateCentrality / analyzeGraph *)

RankSum == SumOver(pageRanks, DOMAIN pageRanks)

C5_NormalisedImportance ==
    (pc = "analyzed" /\ Len(nodes) >= 1) =>
        /\ \E i \in 1..Len(nodes) : nodes[i].pageRank.num = nodes[i].pageRank.den
        /\ \A i \in 1..Len(nodes) :
               LET pr == nodes[i].pageRank
                   sz == nodes[i].size
               IN  /\ pr.den > 0 /\ sz.den > 0
                   /\ 0 < pr.num /\ pr.num <= pr.den
                   \* size and importance share their denominator (maxRank)
                   /\ sz.den = pr.den /\ sz.num = 5 * pr.den + 25 * pr.num
                   /\ 5 * sz.den <= sz.num /\ sz.num <= 30 * sz.den

C5_Witness ==
    /\ pc = "analyzed"
    /\ Len(nodes) >= 3
    /\ \E i, j \in 1..Len(nodes) :
           /\ nodes[i].pageRank.num = nodes[i].pageRank.den
           /\ nodes[j].pageRank.num < nodes[j].pageRank.den

----------------------------------------------------------------------------
(* Claims about enrichLinksWithCurvature *)

IsSelfLink(l) == l.source = l.target

SamePair(l1, l2) ==
    \/ l1.source = l2.source /\ l1.target = l2.target
    \/ l1.source = l2.target /\ l1.target = l2.source

\* positions among the links joining the same unordered pair as link i
PairCount(i) == Cardinality({j \in 1..Len(links) : SamePair(links[j], links[i])})

PairIndex(i) ==
    Cardinality({j \in 1..(i - 1) : SamePair(links[j], links[i])})

\* both endpoints of link i have a position in the supplied node list
\* and the segment between them is within 5 degrees of an axis direction
PositionedNearAxis(i) ==
    /\ useNodes
    /\ \E a, b \in 1..Len(nodes) :
          /\ nodes[a].id = links[i].source /\ nodes[b].id = links[i].target
          /\ nodes[a].x # Undefined /\ nodes[a].y # Undefined
          /\ nodes[b].x # Undefined /\ nodes[b].y # Undefined
          /\ LET adx == Abs(nodes[b].x[1] - nodes[a].x[1])
                 ady == Abs(nodes[b].y[1] - nodes[a].y[1])
             IN  \/ adx = 0 /\ ady = 0
                 \/ ady * Tan5.den < Tan5.num * adx
                 \/ adx * Tan5.den < Tan5.num * ady

\* C6: two distinct links joining the same unordered pair of distinct nodes,
\* in either direction, receive different curvatures.
C6_ParallelLinksDiffer ==
    pc = "enriched" =>
        \A i, j \in 1..Len(links) :
            (i # j /\ ~IsSelfLink(links[i]) /\ SamePair(links[i], links[j]))
                => ~RatEq(links[i].curvature, links[j].curvature)

C6_Witness ==
    /\ pc = "enriched"
    /\ useNodes
    /\ \E i \in 1..Len(links) :
          /\ ~IsSelfLink(links[i]) /\ PairCount(i) = 3
          /\ RatEq(links[i].curvature, CardinalCurvature)
    /\ \E i, j \in 1..Len(links) :
          SamePair(links[i], links[j]) /\ links[i].source = links[j].target
              /\ ~IsSelfLink(links[i])

\* C7 (as stated): a non-self link that is the only link between its
\* endpoints always receives curvature 0, with or without node positions.
C7_LoneLinkStraight ==
    pc = "enriched" =>
        \A i \in 1..Len(links) :
            (~IsSelfLink(links[i]) /\ PairCount(i) = 1)
                => links[i].curvature.num = 0

\* C7 (amended): a non-self lone link receives curvature 0, except that it
\* receives 0.1 when the node list gives both endpoints a position and the
\* link is within 5 degrees of an axis direction.
C7_LoneLinkStraightUnlessCardinal ==
    pc = "enriched" =>
        \A i \in 1..Len(links) :
            (~IsSelfLink(links[i]) /\ PairCount(i) = 1)
                => IF PositionedNearAxis(i)
                   THEN RatEq(links[i].curvature, Rat(1, 10))
                   ELSE links[i].curvature.num = 0

C7_Witness ==
    /\ pc = "enriched"
    /\ useNodes
    /\ \E i \in 1..Len(links) :
          /\ ~IsSelfLink(links[i]) /\ PairCount(i) = 1
          /\ \A n \in 1..Len(nodes) : nodes[n].x # Undefined
          /\ Len(nodes) = 2
          /\ ~PositionedNearAxis(i) /\ links[i].curvature.num = 0

\* C8: every self-link receives a curvature strictly greater than 0, whatever
\* other links exist and whether or not nodes / positions are supplied.
C8_SelfLinkCurved ==
    pc = "enriched" =>
        \A i \in 1..Len(links) :
            IsSelfLink(links[i]) => RatLess(Rat(0, 1), links[i].curvature)

C8_Witness ==
    /\ pc = "enriched"
    /\ \E i, j \in 1..Len(links) :
          i # j /\ IsSelfLink(links[i]) /\ SamePair(links[i], links[j])
              /\ RatLess(Rat(0, 1), links[i].curvature)
    /\ \E i \in 1..Len(links) : ~IsSelfLink(links[i])

\* C9 (as stated): of k > 1 links joining the same pair of distinct nodes,
\* the one at 0-based position i among them receives 0.5 x (i - (k-1)/2).
C9_SymmetricFan ==
    pc = "enriched" =>
        \A i \in 1..Len(links) :
            (~IsSelfLink(links[i]) /\ PairCount(i) > 1)
                => RatEq(links[i].curvature,
                         Rat(2 * PairIndex(i) - (PairCount(i) - 1), 4))

\* C9 (amended): as stated, except that a link for which that value is 0
\* (the middle one of an odd k) receives 0.1 when the node list gives both
\* endpoints a position and the link is within 5 degrees of an axis direction.
C9_SymmetricFanUnlessCardinal ==
    pc = "enriched" =>
        \A i \in 1..Len(links) :
            (~IsSelfLink(links[i]) /\ PairCount(i) > 1)
                => IF 2 * PairIndex(i) = PairCount(i) - 1 /\ PositionedNearAxis(i)
                   THEN RatEq(links[i].curvature, Rat(1, 10))
                   ELSE RatEq(links[i].curvature,
                              Rat(2 * PairIndex(i) - (PairCount(i) - 1), 4))

C9_Witness ==
    /\ pc = "enriched"
    /\ Len(links) = 3
    /\ \A i \in 1..3 : ~IsSelfLink(links[i]) /\ PairCount(i) = 3
    /\ RatEq(links[1].curvature, Rat(-1, 2))
    /\ RatEq(links[2].curvature, Rat(0, 1))
    /\ RatEq(links[3].curvature, Rat(1, 2))

----------------------------------------------------------------------------
(* Claims about useGraphHighlight *)

\* C10: for the same graph and focus node, the highlight state of DirectMode
\* (pathway flag off) is a subset, in nodes and in links, of the highlight
\* state of PathwayMode (pathway flag on, depth 3): switching the flag on
\* with the focus kept never removes a highlighted node or link, and
\* switching it off never adds one.
C10_DirectSubsetOfPathway ==
    [][(highlightedNode # Undefined /\ highlightedNode' = highlightedNode
            /\ pathwayMode' # pathwayMode) =>
         LET direct == IF pathwayMode THEN highlightState' ELSE highlightState
             pathway == IF pathwayMode THEN highlightState ELSE highlightState'
         IN  /\ direct.nodes \subseteq pathway.nodes
             /\ direct.links \subseteq pathway.links]_vars

C10_Witness ==
    /\ pathwayMode
    /\ highlightedNode # Undefined
    /\ Cardinality(highlightState.nodes) >= 3
    /\ Cardinality(highlightState.links) = 2
    /\ Cardinality(DirectLinks(links, highlightedNode[1])) = 1

----------------------------------------------------------------------------
(* Claims about useNeighborMap *)

\* C11: in a graph whose links all join present nodes, the neighbor map of
\* useNeighborMap is symmetric: b is listed as a neighbor of a exactly when
\* a is listed as a neighbor of b.
C11_NeighborMapSymmetric ==
    LinksValid(nodes, links) =>
        LET map == UseNeighborMap(nodes, links)
        IN  \A a \in NodeIds(nodes), b \in NodeIds(nodes) :
                (b \in Range(map[a])) <=> (a \in Range(map[b]))

\* a rendered graph with a link drawn in one direction only, whose target
\* nevertheless lists the source
C11_Witness ==
    /\ highlightedNode # Undefined
    /\ \E i \in 1..Len(links) :
        /\ links[i].source # links[i].target
        /\ \A j \in 1..Len(links) :
               ~(links[j].source = links[i].target
                    /\ links[j].target = links[i].source)
        /\ links[i].source \in
               Range(UseNeighborMap(nodes, links)[links[i].target])

----------------------------------------------------------------------------
(* Claims about PathwayMode *)

\* the nodes within k undirected hops of the set S
RECURSIVE Ball(_, _, _)
Ball(ls, S, k) ==
    IF k = 0 THEN S
    ELSE Ball(ls,
              S \cup {ls[i].target : i \in {j \in 1..Len(ls) : ls[j].source \in S}}
                \cup {ls[i].source : i \in {j \in 1..Len(ls) : ls[j].target \in S}},
              k - 1)

\* the links are exactly the chain IdOrder[1] - IdOrder[2] - ... over all nodes
IsChain ==
    /\ Len(links) = Len(nodes) - 1
    /\ \A i \in 1..Len(links) :
           {links[i].source, links[i].target} = {nodes[i].id, nodes[i + 1].id}

\* C13: in PathwayMode with focus node f the highlighted nodes are exactly
\* the nodes at undirected shortest-path distance at most 3 from f, f
\* included, and the highlighted links are exactly the links with both
\* endpoints among them; on the chain A-B-C-D-E focused on A the highlighted
\* nodes are exactly A, B, C, D.
C13_PathwayWithinThreeHops ==
    (pathwayMode /\ highlightedNode # Undefined) =>
        LET near == Ball(links, {highlightedNode[1]}, 3)
        IN  /\ highlightState.nodes = near
            /\ highlightState.links =
                   {LinkKey(i - 1) : i \in {j \in 1..Len(links) :
                        links[j].source \in near /\ links[j].target \in near}}
            /\ (IsChain /\ Len(nodes) = 5 /\ highlightedNode[1] = "A")
                   => highlightState.nodes = {"A", "B", "C", "D"}

\* a chain of five or more nodes focused on its first node: the fifth node
\* is left out, the first three links are highlighted
C13_Witness ==
    /\ pathwayMode
    /\ highlightedNode = Some("A")
    /\ IsChain
    /\ Len(nodes) >= 5
    /\ highlightState.nodes = {"A", "B", "C", "D"}
    /\ highlightState.links = {LinkKey(0), LinkKey(1), LinkKey(2)}

----------------------------------------------------------------------------
(* Claims about DirectMode *)

\* C20: in DirectMode (pathway flag off) with focus node f the highlighted
\* nodes are exactly f and the nodes one link away from f, as the neighbor
\* map lists them, and the highlighted links are exactly the links that have
\* f as source or target.
C20_DirectModeExact ==
    (~pathwayMode /\ highlightedNode # Undefined) =>
        LET f == highlightedNode[1]
        IN  /\ highlightState.nodes = Ball(links, {f}, 1)
            /\ highlightState.nodes =
                   {f} \cup Range(UseNeighborMap(nodes, links)[f])
            /\ highlightState.links =
                   {LinkKey(i - 1) : i \in {j \in 1..Len(links) :
                        links[j].source = f \/ links[j].target = f}}

\* a focus with a link coming in and a link going out, and a third link
\* that does not touch it
C20_Witness ==
    /\ ~pathwayMode
    /\ highlightedNode # Undefined
    /\ \E i \in 1..Len(links) :
           links[i].target = highlightedNode[1]
               /\ links[i].source # highlightedNode[1]
    /\ \E i \in 1..Len(links) :
           links[i].source = highlightedNode[1]
               /\ links[i].target # highlightedNode[1]
    /\ Cardinality(highlightState.nodes) = 3
    /\ Cardinality(highlightState.links) < Len(links)

----------------------------------------------------------------------------
(* Claims about the community assignment of analyzeGraph *)

\* number of components that appear in the node sequence before the
\* component of id
CommunityIndex(ns, ls, id) ==
    Cardinality({K \in ComponentSets(ns, ls) :
                    FirstIndex(ns, K) < FirstIndex(ns, ComponentOf(id, ls))})

\* C15: after analyzeGraph every node's group is the sequential community id
\* of its undirected connected component, the components being numbered in
\* order of first appearance in the node sequence (from 0 or from 1),
\* whatever group the node had before.
C15_GroupIsCommunity ==
    pc = "analyzed" =>
        \E base \in {0, 1} :
            \A i \in 1..Len(nodes) :
                nodes[i].group = base + CommunityIndex(nodes, links, nodes[i].id)

----------------------------------------------------------------------------
(* Claims about calculateLinkWeights *)

\* C18: calculateLinkWeights maps every link weight v to
\* 1 + 4 (v - min) / (max - min) when the largest and smallest weights
\* differ, so that every result lies in [1, 5], the smallest weight becomes 1
\* and the largest 5; when all weights are equal every link gets exactly 1,
\* with a non-zero denominator.
C18_LinkWeightsRescaled ==
    (pc = "analyzed" /\ Len(links) >= 1) =>
        LET vals == [i \in 1..Len(input.links) |-> input.links[i].value]
            max == MaxOver(vals, DOMAIN vals)
            min == MinOver(vals, DOMAIN vals)
        IN  /\ Len(links) = Len(input.links)
            /\ \A i \in 1..Len(links) :
                   LET w == links[i].value
                   IN  /\ w.den > 0
                       /\ IF max # min
                          THEN /\ w.num * (max - min) =
                                      w.den * ((max - min) + 4 * (vals[i] - min))
                               /\ w.den <= w.num /\ w.num <= 5 * w.den
                               /\ vals[i] = min => w.num = w.den
                               /\ vals[i] = max => w.num = 5 * w.den
                          ELSE w.num = w.den

\* three links of weights 1, 2 and 3 rescaled to 1, 3 and 5
C18_Witness ==
    /\ pc = "analyzed"
    /\ Len(links) = 3
    /\ {input.links[i].value : i \in 1..3} = {1, 2, 3}
    /\ \A i \in 1..3 :
           links[i].value.num =
               (2 * input.links[i].value - 1) * links[i].value.den

----------------------------------------------------------------------------
(* Claims about the links synthesized by connectIsolatedNodes *)

\* C16: every link synthesized by connectIsolatedNodes has value 1, type
\* "inferred_relation" and isInferred set to true, and the original links
\* come out of the repair as they went in.
C16_InferredLinksMarked ==
    pc = "repaired" =>
        /\ \A i \in NewLinkIndexes :
               /\ links[i].value = 1
               /\ links[i].type = "inferred_relation"
               /\ "isInferred" \in DOMAIN links[i]
               /\ links[i].isInferred = TRUE
        /\ \A i \in 1..Len(input.links) : links[i] = input.links[i]

----------------------------------------------------------------------------
(* Claims about the layouts *)

\* the centre of the input graph if it is a star of exactly k leaves: every
\* link joins the centre and a leaf, each leaf has exactly one link
StarCentres(g, k) ==
    { c \in NodeIds(g.nodes) :
        /\ Len(g.nodes) = k + 1
        /\ Len(g.links) = k
        /\ \A i \in 1..k :
               /\ c \in {g.links[i].source, g.links[i].target}
               /\ g.links[i].source # g.links[i].target
        /\ \A id \in NodeIds(g.nodes) \ {c} :
               Cardinality({i \in 1..k :
                   id \in {g.links[i].source, g.links[i].target}}) = 1 }

\* number of links of g that enter node c
LinksInto(g, c) == Cardinality({i \in 1..Len(g.links) : g.links[i].target = c})

AutoRan == pc = "laidOut" /\ autoStats # Undefined

\* C12 as stated: for a star graph with centre Z and 5 leaves, one link per
\* leaf and no other link, applyAutoLayout selects the tree layout whichever
\* endpoint of each centre-leaf link is its source.
C12_StarGetsTree ==
    (AutoRan /\ StarCentres(input, StarLeaves) # {}) => layoutCall.fn = "tree"

\* C12 amended: for such a star applyAutoLayout selects the tree layout
\* exactly when at most one link enters the centre (in particular when the
\* centre is the source of every link); when two or more links enter the
\* centre it selects the circular layout.
C12_StarGetsTreeUnlessCentreIsTarget ==
    (AutoRan /\ StarCentres(input, StarLeaves) # {}) =>
        \A c \in StarCentres(input, StarLeaves) :
            IF LinksInto(input, c) <= 1 THEN layoutCall.fn = "tree"
            ELSE layoutCall.fn = "circular"

\* the star whose centre is the source of every link, laid out as a tree
C12_Witness ==
    /\ AutoRan
    /\ \E c \in StarCentres(input, StarLeaves) : LinksInto(input, c) = 0
    /\ layoutCall.fn = "tree"
    /\ \A i \in 1..Len(nodes) : nodes[i].fx = nodes[i].x /\ nodes[i].x # Undefined

HasSelfLink(g) == \E i \in 1..Len(g.links) : g.links[i].source = g.links[i].target

\* every node of g has at most one incoming link
TreeShaped(g) == \A id \in NodeIds(g.nodes) : LinksInto(g, id) <= 1

\* the layout that the priority list of C14 names for g
PriorityLayout(g) ==
    IF TreeShaped(g) /\ ~HasSelfLink(g) THEN "tree"
    ELSE IF 2 * Len(g.links) < 3 * Len(g.nodes) /\ Len(g.links) > 10 THEN "dagre"
    ELSE IF Len(g.nodes) < 50 /\ ~HasSelfLink(g) THEN "circular"
    ELSE "force"

\* C14: applyAutoLayout applies exactly one layout, chosen by priority: tree
\* if every node has at most one incoming link and no link is a self-link;
\* otherwise dagre if 2 |links| / |nodes| < 3 and |links| > 10; otherwise
\* circular if |nodes| < 50 and no link is a self-link; otherwise the input
\* graph is returned unmodified.  A graph with a self-link never gets the
\* tree or the circular layout.
C14_AutoLayoutPriority ==
    AutoRan =>
        /\ layoutCall.fn = PriorityLayout(input)
        /\ HasSelfLink(input) => layoutCall.fn \in {"dagre", "force"}
        /\ Graph(nodes, links) =
               CASE layoutCall.fn = "tree" ->
                        ApplyTreeLayout(input.nodes, input.links, Undefined,
                                        DefaultTreeOptions)
                 [] layoutCall.fn = "dagre" ->
                        ApplyDagreLayout(input.nodes, input.links)
                 [] layoutCall.fn = "circular" ->
                        ApplyCircularLayout(input.nodes, input.links, Undefined)
                 [] OTHER -> input

\* a sparse graph of more than 10 links, one of them a self-link, and not
\* tree-shaped: the dagre layout is applied
C14_Witness ==
    /\ AutoRan
    /\ HasSelfLink(input)
    /\ ~TreeShaped(input)
    /\ Len(input.links) = 11
    /\ layoutCall.fn = "dagre"
    /\ \A i \in 1..Len(nodes) : nodes[i].x = Some(DagreNode(nodes[i].id).x)

\* node n has a position and a pinned position
Positioned(n) ==
    n.x # Undefined /\ n.y # Undefined /\ n.fx # Undefined /\ n.fy # Undefined

\* C17: for the requested layout algorithms dagre, tree and circular, and for
\* auto when it selects a layout other than force, the graph that
\* UnifiedForceGraph hands to the renderer has position and pinned position
\* set on every node; only for the requested algorithm force are the nodes
\* passed through as they came.
C17_RequestedLayoutPositions ==
    pc = "rendered" =>
        /\ (layoutAlgorithm \in {"dagre", "tree", "circular"}
               \/ (layoutAlgorithm = "auto" /\ layoutCall.fn # "force"))
               => \A i \in 1..Len(nodes) : Positioned(nodes[i])
        /\ layoutAlgorithm = "force" => nodes = input.nodes

EmptyGraph == Graph(<<>>, <<>>)

\* analyzeGraph on the graph without nodes, as FinishAnalyze composes it
AnalyzedEmpty ==
    LET ranked == WithCentrality(<<>>, InitialRanks(<<>>))
        weighted == CalculateLinkWeights(<<>>)
    IN  Graph(WithCommunities(ranked, DetectCommunities(ranked, weighted)),
              weighted)

\* C19: on the graph with zero nodes and zero links connectIsolatedNodes,
\* analyzeGraph, applyAutoLayout, applyCircularLayout and
\* enrichLinksWithCurvature each return an empty node list and an empty link
\* list, and no quotient they compute has divisor 0.
C19_EmptyGraphNoDivision ==
    (pc = "laidOut" /\ input = EmptyGraph
        /\ (autoStats # Undefined \/ layoutCall.fn = "circular")) =>
        /\ Graph(nodes, links) = EmptyGraph
        /\ autoStats # Undefined => autoStats[1].avgDegree.den # 0
        /\ ConnectIsolatedNodes(<<>>, <<>>) = EmptyGraph
        /\ AnalyzedEmpty = EmptyGraph
        /\ EnrichLinksWithCurvature(<<>>, <<>>, TRUE) = <<>>
        /\ EnrichLinksWithCurvature(<<>>, <<>>, FALSE) = <<>>

----------------------------------------------------------------------------
(* Claims about a focus that is none or not a node of the graph *)

\* C21: when the focus is none both highlight sets are empty; when the focus
\* id is not a node of the graph, in DirectMode and in PathwayMode alike, the
\* highlighted node set is exactly that id and the highlighted link set is
\* empty.
C21_UnknownFocusHighlightsItself ==
    /\ highlightedNode = Undefined => highlightState = [nodes |-> {}, links |-> {}]
    /\ (highlightedNode # Undefined /\ highlightedNode[1] \notin NodeIds(nodes))
           => highlightState = [nodes |-> {highlightedNode[1]}, links |-> {}]

\* a focus left over from an earlier graph, in PathwayMode, on a graph that
\* has a link
C21_Witness ==
    /\ highlightedNode # Undefined
    /\ highlightedNode[1] \notin NodeIds(nodes)
    /\ pathwayMode
    /\ Len(links) >= 1
    /\ highlightState.nodes = {highlightedNode[1]}

-----------------------------------------------------------------------------
\* C22: handleNodeSelect(n) without a modifier key makes the selection
\* exactly {n}, unless the selection was already exactly {n}, in which case
\* it becomes empty; with Ctrl, Cmd, Shift or Alt held it toggles the
\* membership of n and leaves the membership of every other node unchanged.
C22_HandleNodeSelectContract ==
    [][pc' = "handleNodeSelect" =>
          LET n == input'.node.id
              e == input'.event
              modifier == e.ctrlKey \/ e.metaKey \/ e.shiftKey \/ e.altKey
          IN  IF modifier
              THEN /\ (n \in selectedNodes') <=> (n \notin selectedNodes)
                   /\ \A m \in (selectedNodes \cup selectedNodes') \ {n} :
                          (m \in selectedNodes') <=> (m \in selectedNodes)
              ELSE IF selectedNodes = {n}
                   THEN selectedNodes' = {}
                   ELSE selectedNodes' = {n}]_vars

\* a click without modifier on the only selected node of a graph with other
\* nodes has emptied the selection
C22_Witness ==
    /\ pc = "handleNodeSelect"
    /\ ~(input.event.ctrlKey \/ input.event.metaKey
         \/ input.event.shiftKey \/ input.event.altKey)
    /\ Len(nodes) >= 2
    /\ selectedNodes = {}

\* C30: after any sequence of handleNodeSelect and clearSelection calls,
\* lastSelectedNode is null or a node whose id is in selectedNodes; it is
\* null after a click that deselects the only selected node.
C30_LastSelectedIsSelected ==
    /\ lastSelectedNode # Undefined => lastSelectedNode[1].id \in selectedNodes
    /\ (/\ pc = "handleNodeSelect"
        /\ ~(input.event.ctrlKey \/ input.event.metaKey
             \/ input.event.shiftKey \/ input.event.altKey)
        /\ selectedNodes = {})
           => lastSelectedNode = Undefined

-----------------------------------------------------------------------------
(* Claim about the choice of the target of an inferred link *)

\* 60 x (0.5 [same group] + 0.3 [same type] + shared words / larger
\* vocabulary [both have context]); exact for vocabularies of 1..6 words
Score60(a, b) ==
    (IF a.group = b.group THEN 30 ELSE 0)
    + (IF a.type = b.type THEN 18 ELSE 0)
    + (IF a.context # Undefined /\ b.context # Undefined
       THEN (60 * Cardinality(a.context[1] \cap b.context[1]))
            \div Max2(Cardinality(a.context[1]), Cardinality(b.context[1]))
       ELSE 0)

\* the members of the main component of the input in discovery order
MainDiscoveryOrder ==
    SortComponents(FindComponents(input.nodes,
                                  AdjacencyMap(input.nodes, input.links)))[1]

InputNode(id) == FindNode(input.nodes, id)[1]

\* C23: the target of every inferred link is a main-component node whose
\* similarity to the component's representative is maximal over the main
\* component (0.5 for equal groups + 0.3 for equal types + shared context
\* words over the larger vocabulary when both have context); among equally
\* best nodes the first in the main component's discovery order is chosen.
C23_TargetIsFirstMostSimilar ==
    (repairs >= 1 /\ Cardinality(InputComponents) >= 2) =>
        \A i \in NewLinkIndexes :
            LET rep == InputNode(links[i].source)
                order == MainDiscoveryOrder
            IN  \E j \in 1..Len(order) :
                    /\ links[i].target = order[j]
                    /\ \A k \in 1..Len(order) :
                           Score60(rep, InputNode(order[k]))
                               <= Score60(rep, InputNode(order[j]))
                    /\ \A k \in 1..(j - 1) :
                           Score60(rep, InputNode(order[k]))
                               < Score60(rep, InputNode(order[j]))

\* the chosen target is not the first main node and shares some but not all
\* of the words of the larger vocabulary with the representative
C23_Witness ==
    /\ repairs = 1
    /\ Cardinality(InputComponents) >= 2
    /\ \E i \in NewLinkIndexes :
           LET rep == InputNode(links[i].source)
               tgt == InputNode(links[i].target)
           IN  /\ links[i].target # MainDiscoveryOrder[1]
               /\ rep.context # Undefined /\ tgt.context # Undefined
               /\ LET shared == Cardinality(rep.context[1] \cap tgt.context[1])
                  IN  /\ 0 < shared
                      /\ shared < Max2(Cardinality(rep.context[1]),
                                       Cardinality(tgt.context[1]))

-----------------------------------------------------------------------------
(* Claim about the positions of applyTreeLayout *)

\* targets of the links leaving a node of S
DirectedTargets(ls, S) ==
    {ls[i].target : i \in {j \in 1..Len(ls) : ls[j].source \in S}}

\* levels[d + 1] = the nodes at shortest directed distance d from the root
RECURSIVE DistanceLevels(_, _, _)
DistanceLevels(ls, levels, seen) ==
    LET next == DirectedTargets(ls, levels[Len(levels)]) \ seen
    IN  IF next = {} THEN levels
        ELSE DistanceLevels(ls, Append(levels, next), seen \cup next)

\* orders[d + 1][u] = breadth-first visiting order of u within level d: a
\* node comes before another when the first link that reaches it from the
\* level above does, the links taken parent after parent in visiting order
\* and, per parent, in link order
RECURSIVE VisitOrders(_, _, _)
VisitOrders(ls, levels, orders) ==
    IF Len(orders) = Len(levels) THEN orders
    ELSE LET d == Len(orders) + 1
             above == orders[d - 1]
             first == [u \in levels[d] |->
                          LET keys == {above[ls[i].source] * (Len(ls) + 1) + i :
                                          i \in {j \in 1..Len(ls) :
                                                    /\ ls[j].target = u
                                                    /\ ls[j].source \in levels[d - 1]}}
                          IN  CHOOSE k \in keys : \A k2 \in keys : k <= k2]
         IN  VisitOrders(ls, levels,
                 Append(orders,
                        [u \in levels[d] |->
                            Cardinality({v \in levels[d] : first[v] < first[u]})]))

\* explicit root, else first node without incoming link, else first node
ClaimedTreeRoot(g, rootNodeId) ==
    IF rootNodeId # Undefined THEN rootNodeId[1]
    ELSE LET free == {i \in 1..Len(g.nodes) :
                         \A j \in 1..Len(g.links) :
                             g.links[j].target # g.nodes[i].id}
         IN  IF free # {}
             THEN g.nodes[CHOOSE i \in free : \A k \in free : i <= k].id
             ELSE g.nodes[1].id

\* C24: applyTreeLayout (vertical orientation), with as root the explicit
\* rootNodeId, else the first node without incoming link, else the first
\* node, places every node reachable from the root at
\* y = levelSeparation x d, d its shortest directed distance from the root,
\* and x = siblingSeparation x (p - (w-1)/2), w the number of reachable nodes
\* at level d and p the node's breadth-first visiting order within the
\* level; every node not reachable from the root is placed at (0,0).
C24_TreePositions ==
    (/\ pc = "laidOut"
     /\ layoutCall.fn = "tree"
     /\ layoutCall.options.orientation = "vertical"
     /\ Len(input.nodes) >= 1) =>
        LET root == ClaimedTreeRoot(input, layoutCall.rootNodeId)
            levels == DistanceLevels(input.links, <<{root}>>, {root})
            orders == VisitOrders(input.links, levels, <<[id \in {root} |-> 0]>>)
            opts == layoutCall.options
        IN  \A i \in 1..Len(nodes) :
                IF \E d \in 1..Len(levels) : nodes[i].id \in levels[d]
                THEN LET d == CHOOSE k \in 1..Len(levels) :
                                  nodes[i].id \in levels[k]
                         w == Cardinality(levels[d])
                         p == orders[d][nodes[i].id]
                     IN  /\ nodes[i].y = Some(opts.levelSeparation * (d - 1))
                         /\ nodes[i].x # Undefined
                         /\ 2 * nodes[i].x[1]
                                = opts.siblingSeparation * (2 * p - (w - 1))
                ELSE nodes[i].x = Some(0) /\ nodes[i].y = Some(0)

\* a root chosen by the layout, below it a level of two nodes of which the
\* later in node order is visited first, and a node at the origin
C24_Witness ==
    /\ pc = "laidOut"
    /\ layoutCall.fn = "tree"
    /\ layoutCall.options.orientation = "vertical"
    /\ layoutCall.rootNodeId = Undefined
    /\ \E i, j \in 1..Len(nodes) :
           /\ i < j
           /\ nodes[i].y = nodes[j].y
           /\ nodes[i].y # Some(0)
           /\ nodes[j].x[1] < 0
           /\ nodes[i].x[1] > 0
    /\ \E i \in 1..Len(nodes) : nodes[i].x = Some(0) /\ nodes[i].y = Some(0)

-----------------------------------------------------------------------------
(* Claims about the highlight across replacements of the graph *)

C29_HighlightedAreNodes ==
    highlightState.nodes \subseteq NodeIds(nodes)

\* C29, amended: after any sequence of hover events and graph replacements
\* every id in highlightState.nodes other than the id of the focus itself is
\* the id of a node of the current graph.
C29_HighlightedAreNodesOrFocus ==
    \A id \in highlightState.nodes :
        id \in NodeIds(nodes) \/ highlightedNode = Some(id)

\* the graph has been replaced by a non-empty one that lacks the focus, and
\* the focus is all that is highlighted
C29_Witness ==
    /\ pc = "replaced"
    /\ ~pathwayMode
    /\ Len(nodes) >= 1
    /\ highlightedNode # Undefined
    /\ highlightedNode[1] \notin NodeIds(nodes)
    /\ highlightState.nodes = {highlightedNode[1]}

-----------------------------------------------------------------------------
(* Claim about termination *)

HasDirectedCycle(ls) ==
    \E id \in {ls[i].source : i \in 1..Len(ls)} :
        LET reach == DistanceLevels(ls, <<{id}>>, {})
        IN  \E d \in 2..Len(reach) : id \in reach[d]

HasParallelLinks(ls) ==
    \E i, j \in 1..Len(ls) :
        i < j /\ ls[i].source = ls[j].source /\ ls[i].target = ls[j].target

\* C26: every traversal (the component DFS of connectIsolatedNodes, the flood
\* fill of detectCommunities, the pathway BFS of useGraphHighlight and both
\* BFS passes of applyTreeLayout) terminates on every finite graph, cycles,
\* self-links and parallel links included: once started it is eventually done.
C26_TraversalsTerminate ==
    (traversal.kind # "none") ~> (traversal.kind # "none" /\ traversal.done)

\* both passes of the tree layout are done on a graph with a directed cycle
\* through three nodes, a self-link and parallel links
C26_Witness ==
    /\ traversal.kind = "treePositions"
    /\ traversal.done
    /\ Cardinality(traversal.visited) >= 3
    /\ HasDirectedCycle(SelectSeq(links, LAMBDA l : l.source # l.target))
    /\ HasParallelLinks(links)
    /\ \E i \in 1..Len(links) : links[i].source = links[i].target

-----------------------------------------------------------------------------
(* Claim about what the layouts leave alone *)

\* a node with its position and pinned position blanked
Unplaced(n) ==
    [n EXCEPT !.x = Undefined, !.y = Undefined,
              !.fx = Undefined, !.fy = Undefined]

\* C27: applyDagreLayout, applyTreeLayout and applyCircularLayout each return
\* the same nodes in the same order with the same ids and no field changed
\* other than x, y, fx, fy, with fx = x and fy = y on every returned node,
\* and each returns the link sequence unchanged.
C27_LayoutFrame ==
    (pc = "laidOut" /\ layoutCall.fn \in {"dagre", "tree", "circular"}) =>
        /\ Len(nodes) = Len(input.nodes)
        /\ \A i \in 1..Len(nodes) :
               /\ nodes[i].id = input.nodes[i].id
               /\ Unplaced(nodes[i]) = Unplaced(input.nodes[i])
               /\ nodes[i].x # Undefined /\ nodes[i].y # Undefined
               /\ nodes[i].fx = nodes[i].x
               /\ nodes[i].fy = nodes[i].y
        /\ links = input.links

\* the circular layout has placed and pinned the nodes of a graph with links
C27_Witness ==
    /\ pc = "laidOut"
    /\ layoutCall.fn = "circular"
    /\ Len(nodes) >= 2
    /\ Len(links) >= 1
    /\ links = input.links
    /\ \A i \in 1..Len(nodes) :
           nodes[i].fx = nodes[i].x /\ nodes[i].x # input.nodes[i].x

-----------------------------------------------------------------------------
(* Claim about the links the renderer shows as highlighted *)

\* C28: for every graph, focus node and mode, isLinkHighlighted(link) is true
\* exactly for the links whose identifier is in highlightState.links; in
\* DirectMode these are exactly the links touching the focus node.
C28_RenderedLinksAreHighlightedLinks ==
    /\ \A i \in 1..Len(links) :
           IsLinkHighlighted(links[i], highlightState)
               <=> LinkKey(i - 1) \in highlightState.links
    /\ (~pathwayMode /\ highlightedNode # Undefined) =>
           \A i \in 1..Len(links) :
               IsLinkHighlighted(links[i], highlightState)
                   <=> \/ links[i].source = highlightedNode[1]
                       \/ links[i].target = highlightedNode[1]

=============================================================================
